---------------------------- MODULE Spec2Model ----------------------------
(***************************************************************************)
(* A model of werf's stages storage manager (package manager): the stage  *)
(* description resolver, the fetch pipeline, the digest index, the final- *)
(* repo replicator, the for-each operations and the rebranding function.  *)
(* Every subsystem has its own specification over the module's variables; *)
(* a specification leaves the variables of the other subsystems alone.    *)
(***************************************************************************)
EXTENDS Integers, Sequences, FiniteSets, TLC

VARIABLES
    \* ---- rebranding (convertStageDescriptionForStagesStorage) ----
    rbOrig,        \* the description the chain of rebrandings started from
    rbPrev,        \* the description before the last rebranding
    rbCur,         \* the description after the last rebranding
    rbTiers        \* the addresses of the tiers rebranded to, oldest first

rbVars == <<rbOrig, rbPrev, rbCur, rbTiers>>

VARIABLES
    \* ---- configuration of the StorageManager (NewStorageManager) ----
    StagesStorage,            \* address of the primary stages storage
    CacheStagesStorageList,   \* addresses of the cache stages storages, in order
    \* ---- the world outside the manager ----
    storage,        \* storage[address][stageID]: "absent", "ok" or "broken"
    rejected,       \* the <<address, stageID>> pairs marked rejected (RejectStage)
    manifestCache,  \* image.CommonManifestCache: records [storage, info]
    \* ---- the resolver (getStageDescription) and its callers ----
    rsTarget,       \* the storage the resolutions of SpecResolve are made against
    rsCall,         \* the last resolution: its arguments, and what held before it
    rsResult,       \* what the last resolution returned: its kind and its source
    mgrRejected     \* the <<address, stageID>> pairs the manager has rejected

VARIABLES
    \* ---- the calls in progress ----
    pc,             \* pc[p]: where caller p is in its call
    op,             \* op[p]: the call caller p makes, with its arguments
    loc,            \* loc[p]: the local variables of the call
    ret,            \* ret[p]: what the call returned
    \* ---- the stages storage cache (the digest index) and its locks ----
    index,          \* index[digest]: [found, ids], the entry of the digest
    cacheLock,      \* cacheLock[key]: the callers holding the lock of that key
    lastOk,         \* lastOk[digest]: the store call that last returned success
    storedUnlocked  \* a store was made by a caller not holding the digest's lock

VARIABLES
    \* ---- the host: its image locks, its local runtime, its LRU tracker ----
    hostLock,               \* hostLock[name]: [shared, exclusive], the holders
    SharedHostImagesLocks,  \* m.SharedHostImagesLocks: the handles registered
    localImages,            \* the image names present in the local runtime
    lruImages,              \* the image names lrumeta has recorded an access of
    \* ---- the final stages storage and the manager's list of its stages ----
    FinalStagesListCache,     \* m.FinalStagesListCache: Nil or [StageIDs]
    FinalStagesListCacheMux,  \* the caller holding m.FinalStagesListCacheMux, or 0
    StagesListMux,            \* the caller holding the list's Mux, or 0
    finalStats,               \* what has been done to the final storage so far
    \* ---- parallelism and the worker pool of the for-each operations ----
    parallel,               \* m.parallel
    parallelTasksLimit,     \* m.parallelTasksLimit
    doTasks,                \* the run of parallel.DoTasks in progress
    \* ---- a function, or an error on its way up, followed on its own ----
    fnCall,         \* the call: its operation and its arguments
    fnValue         \* what the call has computed so far

hostVars == <<hostLock, SharedHostImagesLocks, localImages, lruImages>>

finVars == <<FinalStagesListCache, FinalStagesListCacheMux, StagesListMux, finalStats>>

feVars == <<parallel, parallelTasksLimit, doTasks>>

fnVars == <<fnCall, fnValue>>

procVars == <<pc, op, loc, ret>>

ixVars == <<index, cacheLock, lastOk, storedUnlocked>>

cfgVars == <<StagesStorage, CacheStagesStorageList>>

envVars == <<storage, rejected, manifestCache>>

rsVars == <<rsTarget, rsCall, rsResult, mgrRejected>>

vars == <<rbVars, cfgVars, envVars, rsVars, procVars, ixVars, hostVars, finVars,
          feVars, fnVars>>

-----------------------------------------------------------------------------
(* Stage identities and storage tiers.                                     *)

\* Unique IDs run from 1 to MaxUniqueID.
MaxUniqueID == 2

Digests == {"a", "b"}

UniqueIDs == 1..MaxUniqueID

\* image.StageID: (Digest, UniqueID), both mandatory.
StageIDs == [Digest : Digests, UniqueID : UniqueIDs]

\* storage.LocalStorageAddress
LocalStorageAddress == ":local"

PrimaryRepo == "registry/primary"

FinalRepo == "registry/final"

CacheRepos == <<"registry/cache1", "registry/cache2">>

Addresses == {LocalStorageAddress, PrimaryRepo, FinalRepo, CacheRepos[1], CacheRepos[2]}

\* No value: of a variable that holds records.
None == [none |-> TRUE]

-----------------------------------------------------------------------------
(* The values the variables of a subsystem keep in the specifications that *)
(* do not use it.                                                          *)

RbIdle ==
    /\ rbOrig = None
    /\ rbPrev = None
    /\ rbCur = None
    /\ rbTiers = <<>>

CfgIdle ==
    /\ StagesStorage = PrimaryRepo
    /\ CacheStagesStorageList = <<>>

EnvIdle ==
    /\ storage = [address \in {} |-> None]
    /\ rejected = {}
    /\ manifestCache = {}

ProcIdle ==
    /\ pc = <<>>
    /\ op = <<>>
    /\ loc = <<>>
    /\ ret = <<>>

IxIdle ==
    /\ index = <<>>
    /\ cacheLock = <<>>
    /\ lastOk = <<>>
    /\ storedUnlocked = FALSE

RsIdle ==
    /\ rsTarget = PrimaryRepo
    /\ rsCall = None
    /\ rsResult = None
    /\ mgrRejected = {}

HostIdle ==
    /\ hostLock = <<>>
    /\ SharedHostImagesLocks = <<>>
    /\ localImages = {}
    /\ lruImages = {}

FinIdle ==
    /\ FinalStagesListCache = None
    /\ FinalStagesListCacheMux = 0
    /\ StagesListMux = 0
    /\ finalStats = None

FeIdle ==
    /\ parallel = FALSE
    /\ parallelTasksLimit = 0
    /\ doTasks = None

FnIdle ==
    /\ fnCall = None
    /\ fnValue = None

-----------------------------------------------------------------------------
(* Rebranding.                                                             *)

\* fmt.Sprintf("%s:%s-%d", address, digest, uniqueID): the three arguments
\* with their two separators.
ImageNameFormat(address, digest, uniqueID) ==
    <<address, ":", digest, "-", uniqueID>>

\* Name taken from the description's own repository instead of the tier's.
ConvertKeepingOwnRepository(stageDesc, address) ==
    [StageID |-> [Digest |-> stageDesc.StageID.Digest,
                  UniqueID |-> stageDesc.StageID.UniqueID],
     Info |-> [Name |-> ImageNameFormat(stageDesc.Info.Repository,
                                        stageDesc.StageID.Digest,
                                        stageDesc.StageID.UniqueID),
               Repository |-> address,
               Tag |-> stageDesc.Info.Tag,
               RepoDigest |-> stageDesc.Info.RepoDigest,
               ID |-> stageDesc.Info.ID,
               ParentID |-> stageDesc.Info.ParentID,
               Labels |-> stageDesc.Info.Labels,
               Size |-> stageDesc.Info.Size,
               CreatedAtUnixNano |-> stageDesc.Info.CreatedAtUnixNano]]

\* convertStageDescriptionForStagesStorage(stageDesc, stagesStorage), with
\* address = stagesStorage.Address().
convertStageDescriptionForStagesStorage(stageDesc, address) ==
    [StageID |-> [Digest |-> stageDesc.StageID.Digest,
                  UniqueID |-> stageDesc.StageID.UniqueID],
     Info |-> [Name |-> ImageNameFormat(address,
                                        stageDesc.StageID.Digest,
                                        stageDesc.StageID.UniqueID),
               Repository |-> address,
               Tag |-> stageDesc.Info.Tag,
               RepoDigest |-> stageDesc.Info.RepoDigest,
               ID |-> stageDesc.Info.ID,
               ParentID |-> stageDesc.Info.ParentID,
               Labels |-> stageDesc.Info.Labels,
               Size |-> stageDesc.Info.Size,
               CreatedAtUnixNano |-> stageDesc.Info.CreatedAtUnixNano]]

\* The longest chain of rebrandings explored.
MaxRebrandChain == 3

RebrandTiers == {PrimaryRepo, FinalRepo, CacheRepos[1]}

\* The descriptions a chain starts from: any stage ID, a name and a repository
\* of any tier (also one that does not match the stage ID), and two values of
\* every field that rebranding copies.
RebrandInputs ==
    { [StageID |-> id,
       Info |-> [Name |-> ImageNameFormat(repo, nameDigest, id.UniqueID),
                 Repository |-> repo,
                 Tag |-> tag,
                 RepoDigest |-> other.RepoDigest,
                 ID |-> other.ID,
                 ParentID |-> other.ParentID,
                 Labels |-> other.Labels,
                 Size |-> other.Size,
                 CreatedAtUnixNano |-> other.CreatedAtUnixNano]] :
        id \in StageIDs,
        repo \in {PrimaryRepo, CacheRepos[1]},
        nameDigest \in Digests,
        tag \in {"a-1", "latest"},
        other \in { [RepoDigest |-> "sha256:1", ID |-> "id1", ParentID |-> "",
                     Labels |-> {"werf"}, Size |-> 10, CreatedAtUnixNano |-> 7],
                    [RepoDigest |-> "sha256:2", ID |-> "id2", ParentID |-> "id1",
                     Labels |-> {}, Size |-> 0, CreatedAtUnixNano |-> 9] } }

\* Rebranding reads and writes nothing of the manager's state.
RbRest == CfgIdle /\ EnvIdle /\ RsIdle /\ ProcIdle /\ IxIdle /\ HostIdle /\ FinIdle /\ FeIdle /\ FnIdle

RbFrame == UNCHANGED <<cfgVars, envVars, rsVars, procVars, ixVars, hostVars, finVars, feVars, fnVars>>

RebrandInit ==
    /\ rbOrig \in RebrandInputs
    /\ rbPrev = rbOrig
    /\ rbCur = rbOrig
    /\ rbTiers = <<>>
    /\ RbRest

Rebrand(address) ==
    /\ Len(rbTiers) < MaxRebrandChain
    /\ rbPrev' = rbCur
    /\ rbCur' = convertStageDescriptionForStagesStorage(rbCur, address)
    /\ rbTiers' = Append(rbTiers, address)
    /\ UNCHANGED rbOrig
    /\ RbFrame

RebrandNext == \E address \in RebrandTiers : Rebrand(address)

SpecRebrand == RebrandInit /\ [][RebrandNext]_vars

\* The Info fields that rebranding copies.
CopiedFields(info) ==
    [Tag |-> info.Tag, RepoDigest |-> info.RepoDigest, ID |-> info.ID,
     ParentID |-> info.ParentID, Labels |-> info.Labels, Size |-> info.Size,
     CreatedAtUnixNano |-> info.CreatedAtUnixNano]

\* C8: rebranding twice to the same tier gives what rebranding once gave;
\* after any chain of rebrandings the stage ID is the original one and every
\* Info field other than Name and Repository has its original value.
C8_RebrandIdempotentAndPreserving ==
    /\ rbCur.StageID = rbOrig.StageID
    /\ CopiedFields(rbCur.Info) = CopiedFields(rbOrig.Info)
    /\ (Len(rbTiers) >= 2 /\ rbTiers[Len(rbTiers)] = rbTiers[Len(rbTiers) - 1])
          => rbCur = rbPrev
    /\ Len(rbTiers) >= 1 =>
          convertStageDescriptionForStagesStorage(rbCur, rbTiers[Len(rbTiers)]) = rbCur

\* A chain that rebranded to one tier, then to another, then to that one again,
\* from a description whose name did not match its stage ID.
C8_Witness ==
    /\ Len(rbTiers) = 3
    /\ rbTiers[1] # rbTiers[2]
    /\ rbTiers[2] = rbTiers[3]
    /\ rbOrig.Info.Name # ImageNameFormat(rbOrig.Info.Repository,
                                          rbOrig.StageID.Digest,
                                          rbOrig.StageID.UniqueID)
    /\ rbCur # rbOrig

-----------------------------------------------------------------------------
(* The stages storages, as the manager sees them.                          *)

ProjectName == "project"

\* stagesStorage.ConstructStageImageName(projectName, digest, uniqueID): a repo
\* names the image after its address, the local storage after the project.
ConstructStageImageName(address, stageID) ==
    IF address = LocalStorageAddress
    THEN ImageNameFormat(ProjectName, stageID.Digest, stageID.UniqueID)
    ELSE ImageNameFormat(address, stageID.Digest, stageID.UniqueID)

\* The description a storage holds of one of its stages.
StorageStageDescription(address, stageID) ==
    [StageID |-> stageID,
     Info |-> [Name |-> ConstructStageImageName(address, stageID),
               Repository |-> IF address = LocalStorageAddress
                              THEN ProjectName ELSE address,
               Tag |-> <<stageID.Digest, "-", stageID.UniqueID>>,
               RepoDigest |-> <<"sha256", stageID>>,
               ID |-> <<"image", stageID>>,
               ParentID |-> "",
               Labels |-> {"werf"},
               Size |-> 10,
               CreatedAtUnixNano |-> stageID.UniqueID]]

\* storage.ErrBrokenImage
ErrBrokenImage == [err |-> "broken image"]

\* Any other error of a call.
ErrOther == [err |-> "error"]

\* A nil description or image info.
Nil == [nil |-> TRUE]

\* stagesStorage.GetStageDescription(ctx, projectName, digest, uniqueID): the
\* description, Nil when the stage is absent or rejected, ErrBrokenImage
\* when its image is broken, another error when the call fails.
StorageGetStageDescription(st, rej, address, stageID, fails) ==
    IF fails THEN ErrOther
    ELSE IF <<address, stageID>> \in rej THEN Nil
    ELSE IF st[address][stageID] = "broken" THEN ErrBrokenImage
    ELSE IF st[address][stageID] = "ok" THEN StorageStageDescription(address, stageID)
    ELSE Nil

\* image.CommonManifestCache.GetImageInfo(ctx, storage, imageName)
ManifestGetImageInfo(mc, address, imageName) ==
    LET hits == {e \in mc : e.storage = address /\ e.info.Name = imageName}
    IN  IF hits = {} THEN Nil ELSE (CHOOSE e \in hits : TRUE).info

\* image.CommonManifestCache.StoreImageInfo(ctx, storage, info)
ManifestStoreImageInfo(mc, address, info) ==
    {e \in mc : ~(e.storage = address /\ e.info.Name = info.Name)}
        \cup {[storage |-> address, info |-> info]}

-----------------------------------------------------------------------------
(* The resolver: getStageDescription.                                      *)

\* What a resolution returns: kind "desc" (a description), "absent" (nil, nil),
\* "reset" (ErrShouldResetStagesStorageCache) or "error" (any other error);
\* src tells which step answered; mc and rej are the manifest cache and the
\* rejected set as the resolution leaves them, byMgr the pairs it rejected,
\* rejectCalls the number of RejectStage calls it made, broken whether the
\* target's GetStageDescription returned storage.ErrBrokenImage, tier the cache
\* storage whose step answered ("" when a step of the target did).
Outcome(kind, desc, src, mc, rej, byMgr) ==
    [kind |-> kind, desc |-> desc, src |-> src, mc |-> mc, rej |-> rej,
     byMgr |-> byMgr, rejectCalls |-> 0, broken |-> FALSE, tier |-> ""]

\* getStageDescriptionOptions
ResolveOptions == [AllowStagesStorageCacheReset : BOOLEAN,
                   WithLocalManifestCache : BOOLEAN]

\* The calls of one resolution that fail: the manifest cache's GetImageInfo and
\* StoreImageInfo, the GetStageDescription of some cache storages and of the
\* target, and the target's RejectStage.
FaultPlans(cacheList) ==
    [mget : BOOLEAN, mstore : BOOLEAN,
     cache : SUBSET {cacheList[i] : i \in 1..Len(cacheList)},
     target : BOOLEAN, reject : BOOLEAN]

NoFaults == [mget |-> FALSE, mstore |-> FALSE, cache |-> {}, target |-> FALSE,
             reject |-> FALSE]

\* getStageDescriptionFromLocalManifestCache: ErrOther, a description or Nil.
getStageDescriptionFromLocalManifestCache(mc, stageID, address, plan) ==
    LET stageImageName == ConstructStageImageName(address, stageID)
        imgInfo == ManifestGetImageInfo(mc, address, stageImageName)
    IN  IF plan.mget THEN ErrOther
        ELSE IF imgInfo # Nil
        THEN [StageID |-> [Digest |-> stageID.Digest, UniqueID |-> stageID.UniqueID],
              Info |-> imgInfo]
        ELSE Nil

\* The broken-image branch that returns ErrShouldResetStagesStorageCache without
\* having rejected the stage.
ResolveBrokenWithoutReject(mc, rej, stageID, address, opts, plan) ==
    IF opts.AllowStagesStorageCacheReset
    THEN [Outcome("reset", Nil, "target", mc, rej, {<<address, stageID>>})
             EXCEPT !.broken = TRUE]
    ELSE [Outcome("absent", Nil, "target", mc, rej, {}) EXCEPT !.broken = TRUE]

\* The broken-image branch that rejects the stage whatever the options and
\* returns by them.
ResolveBrokenRejectingAlways(mc, rej, stageID, address, opts, plan) ==
    IF plan.reject
    THEN [Outcome("error", Nil, "target", mc, rej, {})
             EXCEPT !.rejectCalls = 1, !.broken = TRUE]
    ELSE [Outcome(IF opts.AllowStagesStorageCacheReset THEN "reset" ELSE "absent",
                  Nil, "target", mc,
                  rej \cup {<<address, stageID>>}, {<<address, stageID>>})
             EXCEPT !.rejectCalls = 1, !.broken = TRUE]

\* getStageDescription, the target answered ErrBrokenImage.
ResolveBroken(mc, rej, stageID, address, opts, plan) ==
    IF opts.AllowStagesStorageCacheReset
    THEN IF plan.reject
         THEN [Outcome("error", Nil, "target", mc, rej, {})
                  EXCEPT !.rejectCalls = 1, !.broken = TRUE]
         ELSE [Outcome("reset", Nil, "target", mc,
                       rej \cup {<<address, stageID>>}, {<<address, stageID>>})
                  EXCEPT !.rejectCalls = 1, !.broken = TRUE]
    ELSE [Outcome("absent", Nil, "target", mc, rej, {}) EXCEPT !.broken = TRUE]

\* getStageDescription, the last step: the target storage itself.
ResolveTarget(st, mc, rej, stageID, address, opts, plan) ==
    LET stageDesc == StorageGetStageDescription(st, rej, address, stageID, plan.target)
    IN  IF stageDesc = ErrBrokenImage
        THEN ResolveBroken(mc, rej, stageID, address, opts, plan)
        ELSE IF stageDesc = ErrOther
        THEN Outcome("error", Nil, "target", mc, rej, {})
        ELSE IF stageDesc # Nil
        THEN IF opts.WithLocalManifestCache
             THEN IF plan.mstore
                  THEN Outcome("error", Nil, "target", mc, rej, {})
                  ELSE Outcome("desc", stageDesc, "target",
                               ManifestStoreImageInfo(mc, address, stageDesc.Info),
                               rej, {})
             ELSE Outcome("desc", stageDesc, "target", mc, rej, {})
        ELSE IF opts.AllowStagesStorageCacheReset
        THEN Outcome("reset", Nil, "target", mc, rej, {})
        ELSE Outcome("absent", Nil, "target", mc, rej, {})

\* getStageDescription, the loop over cacheStagesStorageList from its i-th
\* storage on, then the target.
RECURSIVE ResolveFrom(_, _, _, _, _, _, _, _, _)
ResolveFrom(i, st, mc, rej, stageID, address, cacheList, opts, plan) ==
    IF i > Len(cacheList)
    THEN ResolveTarget(st, mc, rej, stageID, address, opts, plan)
    ELSE
      LET cacheStagesStorage == cacheList[i]
          cached == IF opts.WithLocalManifestCache
                    THEN getStageDescriptionFromLocalManifestCache(
                             mc, stageID, cacheStagesStorage, plan)
                    ELSE Nil
          stageDesc == StorageGetStageDescription(
                           st, rej, cacheStagesStorage, stageID,
                           cacheStagesStorage \in plan.cache)
      IN  IF cached = ErrOther
          THEN [Outcome("error", Nil, "manifest", mc, rej, {})
                   EXCEPT !.tier = cacheStagesStorage]
          ELSE IF cached # Nil
          THEN [Outcome("desc",
                        convertStageDescriptionForStagesStorage(cached, address),
                        "cache-manifest", mc, rej, {})
                   EXCEPT !.tier = cacheStagesStorage]
          ELSE IF stageDesc \in {ErrOther, ErrBrokenImage, Nil}
          THEN ResolveFrom(i + 1, st, mc, rej, stageID, address, cacheList, opts, plan)
          ELSE IF opts.WithLocalManifestCache /\ plan.mstore
          THEN [Outcome("error", Nil, "cache", mc, rej, {})
                   EXCEPT !.tier = cacheStagesStorage]
          ELSE [Outcome("desc",
                        convertStageDescriptionForStagesStorage(stageDesc, address),
                        "cache",
                        IF opts.WithLocalManifestCache
                        THEN ManifestStoreImageInfo(mc, cacheStagesStorage,
                                                    stageDesc.Info)
                        ELSE mc,
                        rej, {})
                   EXCEPT !.tier = cacheStagesStorage]

\* A resolver without the loop over the cache storages.
getStageDescriptionSkippingCaches(st, mc, rej, stageID, address, cacheList, opts, plan) ==
    LET cached == IF opts.WithLocalManifestCache
                  THEN getStageDescriptionFromLocalManifestCache(
                           mc, stageID, address, plan)
                  ELSE Nil
    IN  IF cached = ErrOther
        THEN Outcome("error", Nil, "manifest", mc, rej, {})
        ELSE IF cached # Nil
        THEN Outcome("desc", cached, "manifest", mc, rej, {})
        ELSE ResolveTarget(st, mc, rej, stageID, address, opts, plan)

\* getStageDescription(ctx, projectName, stageID, stagesStorage,
\* cacheStagesStorageList, opts), with address = the target stagesStorage.
getStageDescription(st, mc, rej, stageID, address, cacheList, opts, plan) ==
    LET cached == IF opts.WithLocalManifestCache
                  THEN getStageDescriptionFromLocalManifestCache(
                           mc, stageID, address, plan)
                  ELSE Nil
    IN  IF cached = ErrOther
        THEN Outcome("error", Nil, "manifest", mc, rej, {})
        ELSE IF cached # Nil
        THEN Outcome("desc", cached, "manifest", mc, rej, {})
        ELSE ResolveFrom(1, st, mc, rej, stageID, address, cacheList, opts, plan)

-----------------------------------------------------------------------------
(* SpecResolve: resolutions against one storage, one after the other, while *)
(* stages are stored, break and are deleted in the storages.               *)

\* The stages resolved. The resolver shares no state between two stages: the
\* manifest cache is keyed by the image name and the rejected set by the stage.
ResolveStages == {[Digest |-> "a", UniqueID |-> 1]}

\* One resolution fails in at most one call besides the cache storages'.
ResolveFaultPlans(cacheList) ==
    {[NoFaults EXCEPT !.cache = failing] :
        failing \in SUBSET {cacheList[i] : i \in 1..Len(cacheList)}}
    \cup {[NoFaults EXCEPT !.cache = failing, ![f] = TRUE] :
        failing \in SUBSET {cacheList[i] : i \in 1..Len(cacheList)},
        f \in {"mget", "mstore", "target", "reject"}}

RsRest == RbIdle /\ ProcIdle /\ IxIdle /\ HostIdle /\ FinIdle /\ FeIdle /\ FnIdle

RsFrame == UNCHANGED <<rbVars, procVars, ixVars, hostVars, finVars, feVars, fnVars>>

ResolveInit ==
    /\ StagesStorage = PrimaryRepo
    /\ CacheStagesStorageList = <<CacheRepos[1]>>
    /\ rsTarget \in {PrimaryRepo, FinalRepo}
    /\ storage = [address \in {rsTarget, CacheRepos[1]} |->
                     [stageID \in ResolveStages |-> "absent"]]
    /\ rejected = {}
    /\ manifestCache = {}
    /\ rsCall = None
    /\ rsResult = None
    /\ mgrRejected = {}
    /\ RsRest

\* The stage of the description a resolution returned, Nil for none.
OutcomeStageID(out) == IF out.kind = "desc" THEN out.desc.StageID ELSE Nil

\* One call of getStageDescription against rsTarget. Beside what the call
\* returned, rsResult keeps what the same call returns from the same storages
\* when the manifest cache is empty (emptyKind, emptyID).
Resolve(stageID, cacheList, opts, plan) ==
    \E out \in {getStageDescription(storage, manifestCache, rejected, stageID,
                                     rsTarget, cacheList, opts, plan)},
       empty \in {getStageDescription(storage, {}, rejected, stageID,
                                       rsTarget, cacheList, opts, plan)} :
        /\ rsCall' = [stageID |-> stageID,
                      wasRejected |-> <<rsTarget, stageID>> \in mgrRejected,
                      opts |-> opts, rejectFails |-> plan.reject,
                      faulty |-> plan # NoFaults,
                      cacheList |-> cacheList, plan |-> plan]
        /\ rsResult' = [kind |-> out.kind, src |-> out.src, tier |-> out.tier,
                        rejectCalls |-> out.rejectCalls, broken |-> out.broken,
                        id |-> OutcomeStageID(out),
                        emptyKind |-> empty.kind,
                        emptyID |-> OutcomeStageID(empty)]
        /\ manifestCache' = out.mc
        /\ rejected' = out.rej
        /\ mgrRejected' = mgrRejected \cup out.byMgr
        /\ UNCHANGED <<cfgVars, storage, rsTarget>>
        /\ RsFrame

\* A stage image is stored into a storage (StoreImage of some builder or copy).
StageStored(address, stageID) ==
    /\ storage[address][stageID] = "absent"
    /\ storage' = [storage EXCEPT ![address][stageID] = "ok"]
    /\ UNCHANGED <<cfgVars, rejected, manifestCache, rsVars>>
    /\ RsFrame

\* A stored stage image breaks.
StageBreaks(address, stageID) ==
    /\ storage[address][stageID] = "ok"
    /\ storage' = [storage EXCEPT ![address][stageID] = "broken"]
    /\ UNCHANGED <<cfgVars, rejected, manifestCache, rsVars>>
    /\ RsFrame

\* A stage image is deleted from a storage.
StageDeleted(address, stageID) ==
    /\ storage[address][stageID] # "absent"
    /\ storage' = [storage EXCEPT ![address][stageID] = "absent"]
    /\ UNCHANGED <<cfgVars, rejected, manifestCache, rsVars>>
    /\ RsFrame

ResolveNext ==
    \/ \E stageID \in ResolveStages, cacheList \in {<<>>, CacheStagesStorageList},
          opts \in ResolveOptions :
          \E plan \in ResolveFaultPlans(cacheList) :
             Resolve(stageID, cacheList, opts, plan)
    \/ \E address \in DOMAIN storage, stageID \in ResolveStages :
          StageStored(address, stageID)
    \/ \E stageID \in ResolveStages : StageBreaks(rsTarget, stageID)
    \/ \E address \in DOMAIN storage, stageID \in ResolveStages :
          StageDeleted(address, stageID)

SpecResolve == ResolveInit /\ [][ResolveNext]_vars

\* C4 as stated: once the manager has rejected a stage in a storage, no later
\* resolution of the stage against that storage returns a description.
C4_NeverADescriptionAfterReject ==
    (rsCall # None /\ rsCall.wasRejected) => rsResult.kind # "desc"

\* C4 as amended: once the manager has rejected a stage in a storage, a later
\* resolution of the stage against that storage that is answered by the storage
\* itself (no manifest-cache entry hit, no cache storage holding the stage)
\* returns absent or an error. (A resolution answered from the manifest cache
\* or by a cache storage can still return a description.)
C4_TargetNeverAnswersAfterReject ==
    (rsCall # None /\ rsCall.wasRejected /\ rsResult.src = "target")
        => rsResult.kind # "desc"

\* A rejected stage whose image was stored again, resolved with an empty
\* manifest cache and answered by the target storage.
C4_Witness ==
    /\ rsCall # None
    /\ rsCall.wasRejected
    /\ rsResult.src = "target"
    /\ rsResult.kind \in {"absent", "reset"}
    /\ storage[rsTarget][rsCall.stageID] = "ok"

-----------------------------------------------------------------------------
(* The digest index: the stages storage cache and the per-digest lock.     *)

\* The number of concurrent callers.
NumCallers == 2

Callers == 1..NumCallers

\* The stage names the callers pass; they only label the logs.
StageNames == <<"from", "install">>

StageNameOf(p) == StageNames[(p % 2) + 1]

\* The stage IDs of a digest, by unique ID.
IDsOfDigest(digest) == [u \in 1..MaxUniqueID |-> [Digest |-> digest, UniqueID |-> u]]

\* storage.StagesStorageCache: no entry of any digest.
EmptyIndex == [digest \in Digests |-> [found |-> FALSE, ids |-> <<>>]]

\* storage.LockManager: no lock held.
NoLocks == [key \in Digests \cup {StageNames[i] : i \in 1..Len(StageNames)} |-> {}]

\* A call that has not returned.
Running == [returned |-> FALSE]

\* What a call returned: err is "" (nil), "reset" (an error that ends with
\* ErrShouldResetStagesStorageCache) or "error"; stages are the stage IDs of the
\* descriptions returned, Nil for a nil description.
Returned(err, stages) == [returned |-> TRUE, err |-> err, stages |-> stages]

\* The local variables of an index call: ids are the stage IDs being resolved,
\* i the one the loop is at, stages the stage IDs of the descriptions collected,
\* kinds what each resolution so far returned, err the error of the refresh.
NoLocals == [ids |-> <<>>, i |-> 1, stages |-> <<>>, kinds |-> <<>>, err |-> ""]

\* The lock of the stage name instead of the lock of the digest.
LockKeyByStageName(stageName, stageDigest) == stageName

\* StorageLockManager.LockStageCache(ctx, m.ProjectName, stageDigest): the key
\* of the lock that both index-writing operations take.
StageCacheLockKey(stageName, stageDigest) == stageDigest

\* A return that releases nothing.
ReturnWithoutUnlock(locks, p, key) == locks

\* defer m.StorageLockManager.Unlock(ctx, lock): the return releases the lock
\* that the call took.
DeferredUnlock(locks, p, key) == [locks EXCEPT ![key] = @ \ {p}]

\* The list AtomicStoreStagesByDigestToCache hands to StoreStagesByDigest.
StoredStageIDs(stageIDs) == stageIDs

\* AtomicStoreStagesByDigestToCache: LockStageCache succeeds once no other
\* caller holds the lock.
AsLock(p) ==
    LET key == StageCacheLockKey(op[p].stageName, op[p].digest)
    IN  /\ pc[p] = "start"
        /\ op[p].name = "AtomicStoreStagesByDigestToCache"
        /\ cacheLock[key] = {}
        /\ cacheLock' = [cacheLock EXCEPT ![key] = {p}]
        /\ pc' = [pc EXCEPT ![p] = "as_store"]
        /\ UNCHANGED <<op, loc, ret, index, lastOk, storedUnlocked>>

\* AtomicStoreStagesByDigestToCache: LockStageCache fails, the call returns the
\* error.
AsLockFails(p) ==
    /\ pc[p] = "start"
    /\ op[p].name = "AtomicStoreStagesByDigestToCache"
    /\ pc' = [pc EXCEPT ![p] = "done"]
    /\ ret' = [ret EXCEPT ![p] = Returned("error", <<>>)]
    /\ UNCHANGED <<op, loc, ixVars>>

\* AtomicStoreStagesByDigestToCache: StoreStagesByDigest, which writes the entry
\* or fails and leaves it.
AsStore(p, fails) ==
    /\ pc[p] = "as_store"
    /\ IF fails
       THEN /\ loc' = [loc EXCEPT ![p].err = "error"]
            /\ UNCHANGED <<index, storedUnlocked>>
       ELSE /\ index' = [index EXCEPT ![op[p].digest] =
                            [found |-> TRUE, ids |-> StoredStageIDs(op[p].ids)]]
            /\ storedUnlocked' = (storedUnlocked \/ cacheLock[op[p].digest] # {p})
            /\ UNCHANGED loc
    /\ pc' = [pc EXCEPT ![p] = "as_unlock"]
    /\ UNCHANGED <<op, ret, cacheLock, lastOk>>

\* AtomicStoreStagesByDigestToCache returns: the deferred Unlock runs and the
\* caller gets the result.
AsReturn(p) ==
    /\ pc[p] = "as_unlock"
    /\ cacheLock' = DeferredUnlock(cacheLock, p,
                        StageCacheLockKey(op[p].stageName, op[p].digest))
    /\ pc' = [pc EXCEPT ![p] = "done"]
    /\ ret' = [ret EXCEPT ![p] = Returned(loc[p].err, <<>>)]
    /\ lastOk' = IF loc[p].err = "" THEN [lastOk EXCEPT ![op[p].digest] = p]
                 ELSE lastOk
    /\ UNCHANGED <<op, loc, index, storedUnlocked>>

\* The lists a store call passes for a digest.
StoreLists(digest) ==
    {SubSeq(IDsOfDigest(digest), 1, n) : n \in 0..MaxUniqueID}
        \cup {<<IDsOfDigest(digest)[MaxUniqueID]>>}

StoreCalls(p) ==
    [name : {"AtomicStoreStagesByDigestToCache"}, stageName : {StageNameOf(p)},
     digest : {"a"}, ids : StoreLists("a")]
    \cup [name : {"AtomicStoreStagesByDigestToCache"}, stageName : {StageNameOf(p)},
          digest : {"b"}, ids : StoreLists("b")]

-----------------------------------------------------------------------------
(* SpecIndexStore: concurrent AtomicStoreStagesByDigestToCache calls, one   *)
(* per caller, and no other writer of the index.                           *)

IxRest == RbIdle /\ RsIdle /\ CfgIdle /\ EnvIdle /\ HostIdle /\ FinIdle /\ FeIdle /\ FnIdle

IxFrame == UNCHANGED <<rbVars, rsVars, hostVars, finVars, feVars, fnVars>>

IndexStoreInit ==
    /\ pc = [p \in Callers |-> "start"]
    /\ op \in [Callers -> UNION {StoreCalls(p) : p \in Callers}]
    /\ \A p \in Callers : op[p] \in StoreCalls(p)
    /\ loc = [p \in Callers |-> NoLocals]
    /\ ret = [p \in Callers |-> Running]
    /\ index = EmptyIndex
    /\ cacheLock = NoLocks
    /\ lastOk = [digest \in Digests |-> 0]
    /\ storedUnlocked = FALSE
    /\ IxRest

IndexStoreNext ==
    \E p \in Callers :
        \/ AsLock(p) /\ UNCHANGED <<cfgVars, envVars>> /\ IxFrame
        \/ AsLockFails(p) /\ UNCHANGED <<cfgVars, envVars>> /\ IxFrame
        \/ \E fails \in BOOLEAN :
              AsStore(p, fails) /\ UNCHANGED <<cfgVars, envVars>> /\ IxFrame
        \/ AsReturn(p) /\ UNCHANGED <<cfgVars, envVars>> /\ IxFrame

SpecIndexStore == IndexStoreInit /\ [][IndexStoreNext]_vars

AllReturned == \A p \in Callers : pc[p] = "done"

\* C2: a caller is in its StoreStagesByDigest only while it alone holds the lock
\* of the digest, and once every call has returned the entry of a digest is the
\* list of the call on that digest that was the last to return success (a call
\* that returns an error has stored nothing).
C2_StoresSerializeLastWins ==
    /\ \A p \in Callers :
          pc[p] = "as_store" =>
             /\ cacheLock[op[p].digest] = {p}
             /\ \A q \in Callers \ {p} :
                   pc[q] \in {"as_store", "as_unlock"} => op[q].digest # op[p].digest
    /\ AllReturned =>
          \A digest \in Digests :
             IF lastOk[digest] = 0
             THEN index[digest] = EmptyIndex[digest]
             ELSE index[digest] = [found |-> TRUE, ids |-> op[lastOk[digest]].ids]

\* All calls have returned, two of them stored different lists for one digest
\* and both returned success.
C2_Witness ==
    /\ AllReturned
    /\ \E p, q \in Callers :
          /\ p # q
          /\ op[p].digest = op[q].digest
          /\ op[p].ids # op[q].ids
          /\ op[p].stageName # op[q].stageName
          /\ ret[p].err = "" /\ ret[q].err = ""
          /\ lastOk[op[p].digest] = q

-----------------------------------------------------------------------------
(* GetStagesByDigest: the index hit and the refresh under the lock.        *)

\* stagesStorage.GetStagesIDsByDigest(ctx, projectName, digest): the stages of
\* the digest that the storage holds and has not rejected, by unique ID.
StorageGetStagesIDsByDigest(st, rej, address, digest) ==
    SelectSeq(IDsOfDigest(digest),
              LAMBDA id : st[address][id] # "absent" /\ <<address, id>> \notin rej)

\* m.getWithLocalManifestCacheOption()
getWithLocalManifestCacheOption == StagesStorage # LocalStorageAddress

\* The stage ID of a description, Nil of a nil description.
DescID(desc) == IF desc = Nil THEN Nil ELSE desc.StageID

\* A refresh that stores every listed ID, resolved or not.
RefreshStoresListed(listed, valid) == listed

\* atomicGetStagesByDigestWithStagesStorageCacheStore: the IDs it stores are
\* those of the descriptions that resolved.
RefreshStoredIDs(listed, valid) == valid

\* What a resolution leaves in the world.
ApplyOutcome(out) ==
    /\ manifestCache' = out.mc
    /\ rejected' = out.rej
    /\ mgrRejected' = mgrRejected \cup out.byMgr
    /\ UNCHANGED <<cfgVars, storage, rsTarget, rsCall, rsResult>>

\* Options that ask for no reset of the stages storage cache.
OptionsWithoutCacheReset ==
    [AllowStagesStorageCacheReset |-> FALSE,
     WithLocalManifestCache |-> getWithLocalManifestCacheOption]

\* Options that ask for a reset of the stages storage cache.
OptionsWithCacheReset ==
    [AllowStagesStorageCacheReset |-> TRUE,
     WithLocalManifestCache |-> getWithLocalManifestCacheOption]

\* The options getStagesByDigestFromCache resolves the indexed stage IDs with.
getStagesByDigestFromCacheOptions ==
    [AllowStagesStorageCacheReset |-> TRUE,
     WithLocalManifestCache |-> getWithLocalManifestCacheOption]

\* The options getStagesDescriptions resolves the listed stage IDs with.
getStagesDescriptionsOptions ==
    [AllowStagesStorageCacheReset |-> FALSE,
     WithLocalManifestCache |-> getWithLocalManifestCacheOption]

\* getStagesByDigestFromCache: StagesStorageCache.GetStagesByDigest.
GsCache(p, fails) ==
    /\ pc[p] = "start"
    /\ op[p].name = "GetStagesByDigest"
    /\ IF fails
       THEN /\ pc' = [pc EXCEPT ![p] = "done"]
            /\ ret' = [ret EXCEPT ![p] = Returned("error", <<>>)]
            /\ UNCHANGED loc
       ELSE /\ pc' = [pc EXCEPT ![p] =
                         IF index[op[p].digest].found THEN "gs_hit" ELSE "gs_lock"]
            /\ loc' = [loc EXCEPT ![p].ids = index[op[p].digest].ids]
            /\ UNCHANGED ret
    /\ UNCHANGED <<op, ixVars>>

\* getStagesByDigestFromCache: the next indexed stage ID is resolved against the
\* primary storage, with AllowStagesStorageCacheReset; an error ends the call.
GsHitResolve(p, plan) ==
    /\ pc[p] = "gs_hit"
    /\ loc[p].i <= Len(loc[p].ids)
    /\ \E out \in {getStageDescription(
                      storage, manifestCache, rejected, loc[p].ids[loc[p].i],
                      StagesStorage, CacheStagesStorageList,
                      getStagesByDigestFromCacheOptions, plan)} :
          /\ ApplyOutcome(out)
          /\ IF out.kind \in {"error", "reset"}
             THEN /\ pc' = [pc EXCEPT ![p] = "done"]
                  /\ ret' = [ret EXCEPT ![p] = Returned(out.kind, <<>>)]
                  /\ loc' = [loc EXCEPT ![p].kinds = Append(@, out.kind)]
             ELSE /\ loc' = [loc EXCEPT ![p].i = @ + 1,
                                        ![p].stages = Append(@, DescID(out.desc)),
                                        ![p].kinds = Append(@, out.kind)]
                  /\ UNCHANGED <<pc, ret>>
    /\ UNCHANGED <<op, ixVars>>

\* GetStagesByDigest returns the descriptions of the indexed stages.
GsHitReturn(p) ==
    /\ pc[p] = "gs_hit"
    /\ loc[p].i > Len(loc[p].ids)
    /\ pc' = [pc EXCEPT ![p] = "done"]
    /\ ret' = [ret EXCEPT ![p] = Returned("", loc[p].stages)]
    /\ UNCHANGED <<op, loc, ixVars>>

\* atomicGetStagesByDigestWithStagesStorageCacheStore: LockStageCache succeeds
\* once no other caller holds the lock.
GsLock(p) ==
    LET key == StageCacheLockKey(op[p].stageName, op[p].digest)
    IN  /\ pc[p] = "gs_lock"
        /\ cacheLock[key] = {}
        /\ cacheLock' = [cacheLock EXCEPT ![key] = {p}]
        /\ pc' = [pc EXCEPT ![p] = "gs_list"]
        /\ UNCHANGED <<op, loc, ret, index, lastOk, storedUnlocked>>

\* atomicGetStagesByDigestWithStagesStorageCacheStore: LockStageCache fails.
GsLockFails(p) ==
    /\ pc[p] = "gs_lock"
    /\ pc' = [pc EXCEPT ![p] = "done"]
    /\ ret' = [ret EXCEPT ![p] = Returned("error", <<>>)]
    /\ UNCHANGED <<op, loc, ixVars>>

\* getStagesIDsByDigestFromStagesStorage on the primary storage.
GsList(p, fails) ==
    /\ pc[p] = "gs_list"
    /\ IF fails
       THEN /\ loc' = [loc EXCEPT ![p].err = "error"]
            /\ pc' = [pc EXCEPT ![p] = "gs_unlock"]
       ELSE /\ loc' = [loc EXCEPT
                         ![p].ids = StorageGetStagesIDsByDigest(
                                        storage, rejected, StagesStorage, op[p].digest),
                         ![p].i = 1,
                         ![p].stages = <<>>,
                         ![p].kinds = <<>>]
            /\ pc' = [pc EXCEPT ![p] = "gs_resolve"]
    /\ UNCHANGED <<op, ret, ixVars>>

\* getStagesDescriptions: the next listed stage ID is resolved, without
\* AllowStagesStorageCacheReset; a nil description is skipped, an error ends
\* the refresh.
GsResolve(p, plan) ==
    /\ pc[p] = "gs_resolve"
    /\ loc[p].i <= Len(loc[p].ids)
    /\ \E out \in {getStageDescription(
                      storage, manifestCache, rejected, loc[p].ids[loc[p].i],
                      StagesStorage, CacheStagesStorageList,
                      getStagesDescriptionsOptions, plan)} :
          /\ ApplyOutcome(out)
          /\ IF out.kind \in {"error", "reset"}
             THEN /\ loc' = [loc EXCEPT ![p].err = out.kind,
                                        ![p].kinds = Append(@, out.kind)]
                  /\ pc' = [pc EXCEPT ![p] = "gs_unlock"]
             ELSE /\ loc' = [loc EXCEPT
                               ![p].i = @ + 1,
                               ![p].kinds = Append(@, out.kind),
                               ![p].stages = IF out.desc = Nil THEN @
                                             ELSE Append(@, DescID(out.desc))]
                  /\ UNCHANGED pc
    /\ UNCHANGED <<op, ret, ixVars>>

\* atomicGetStagesByDigestWithStagesStorageCacheStore: StoreStagesByDigest of the
\* valid stage IDs.
GsStore(p, fails) ==
    /\ pc[p] = "gs_resolve"
    /\ loc[p].i > Len(loc[p].ids)
    /\ IF fails
       THEN /\ loc' = [loc EXCEPT ![p].err = "error"]
            /\ UNCHANGED <<index, storedUnlocked>>
       ELSE /\ index' = [index EXCEPT ![op[p].digest] =
                            [found |-> TRUE,
                             ids |-> RefreshStoredIDs(loc[p].ids, loc[p].stages)]]
            /\ storedUnlocked' = (storedUnlocked \/ cacheLock[op[p].digest] # {p})
            /\ UNCHANGED loc
    /\ pc' = [pc EXCEPT ![p] = "gs_unlock"]
    /\ UNCHANGED <<op, ret, cacheLock, lastOk>>

\* atomicGetStagesByDigestWithStagesStorageCacheStore returns: the deferred
\* Unlock runs; the caller gets the valid stages, or the error.
GsReturn(p) ==
    /\ pc[p] = "gs_unlock"
    /\ cacheLock' = DeferredUnlock(cacheLock, p,
                        StageCacheLockKey(op[p].stageName, op[p].digest))
    /\ pc' = [pc EXCEPT ![p] = "done"]
    /\ ret' = [ret EXCEPT ![p] = IF loc[p].err = "" THEN Returned("", loc[p].stages)
                                 ELSE Returned(loc[p].err, <<>>)]
    /\ UNCHANGED <<op, loc, index, lastOk, storedUnlocked>>

GetCalls(p) ==
    [name : {"GetStagesByDigest"}, stageName : {StageNameOf(p)}, digest : Digests,
     ids : {<<>>}]

\* The failing calls of one resolution in the index specifications: the cache
\* storages answer, any one other call may fail.
IndexFaultPlans ==
    {NoFaults} \cup {[NoFaults EXCEPT ![f] = TRUE] :
                        f \in {"mget", "mstore", "target", "reject"}}

\* The steps of GetStagesByDigest.
GsNext(p) ==
    \/ \E fails \in BOOLEAN : GsCache(p, fails) /\ UNCHANGED <<cfgVars, envVars, rsVars>>
    \/ \E plan \in IndexFaultPlans : GsHitResolve(p, plan)
    \/ GsHitReturn(p) /\ UNCHANGED <<cfgVars, envVars, rsVars>>
    \/ GsLock(p) /\ UNCHANGED <<cfgVars, envVars, rsVars>>
    \/ GsLockFails(p) /\ UNCHANGED <<cfgVars, envVars, rsVars>>
    \/ \E fails \in BOOLEAN : GsList(p, fails) /\ UNCHANGED <<cfgVars, envVars, rsVars>>
    \/ \E plan \in IndexFaultPlans : GsResolve(p, plan)
    \/ \E fails \in BOOLEAN : GsStore(p, fails) /\ UNCHANGED <<cfgVars, envVars, rsVars>>
    \/ GsReturn(p) /\ UNCHANGED <<cfgVars, envVars, rsVars>>

-----------------------------------------------------------------------------
(* SpecIndexGet: concurrent GetStagesByDigest calls, one per caller, on an  *)
(* empty index, with storages that do not change.                          *)

\* The storages of the index specifications: any state of every stage of digest
\* "a" in the primary storage, where one stage of digest "b" is stored too; the
\* first cache storage holds the first stage of "a" or nothing.
IndexStorages ==
    {[address \in {PrimaryRepo, CacheRepos[1]} |->
         [id \in StageIDs |->
             IF address = PrimaryRepo
             THEN IF id.Digest = "a" THEN a[id.UniqueID]
                  ELSE IF id.UniqueID = 1 THEN "ok" ELSE "absent"
             ELSE IF id = [Digest |-> "a", UniqueID |-> 1] /\ cached
                  THEN "ok" ELSE "absent"]] :
        a \in [1..MaxUniqueID -> {"absent", "ok", "broken"}], cached \in BOOLEAN}

IxGetRest == RbIdle /\ HostIdle /\ FinIdle /\ FeIdle /\ FnIdle

IxGetFrame == UNCHANGED <<rbVars, hostVars, finVars, feVars, fnVars>>

IndexGetInit ==
    /\ pc = [p \in Callers |-> "start"]
    /\ op \in [Callers -> UNION {GetCalls(p) : p \in Callers}]
    /\ \A p \in Callers : op[p] \in GetCalls(p)
    /\ loc = [p \in Callers |-> NoLocals]
    /\ ret = [p \in Callers |-> Running]
    /\ index = EmptyIndex
    /\ cacheLock = NoLocks
    /\ lastOk = [digest \in Digests |-> 0]
    /\ storedUnlocked = FALSE
    /\ StagesStorage = PrimaryRepo
    /\ CacheStagesStorageList = <<CacheRepos[1]>>
    /\ storage \in IndexStorages
    /\ rejected = {}
    /\ manifestCache = {}
    /\ RsIdle
    /\ IxGetRest

IndexGetNext == \E p \in Callers : GsNext(p) /\ IxGetFrame

SpecIndexGet == IndexGetInit /\ [][IndexGetNext]_vars

\* The stages of a digest that resolve against the primary storage: those the
\* primary storage lists and that it, or a cache storage, holds unbroken.
ResolvableIDs(digest) ==
    SelectSeq(IDsOfDigest(digest),
              LAMBDA id :
                 /\ storage[StagesStorage][id] # "absent"
                 /\ <<StagesStorage, id>> \notin rejected
                 /\ \/ storage[StagesStorage][id] = "ok"
                    \/ \E i \in 1..Len(CacheStagesStorageList) :
                          storage[CacheStagesStorageList[i]][id] = "ok")

-----------------------------------------------------------------------------
(* SpecIndex: AtomicStoreStagesByDigestToCache and GetStagesByDigest calls  *)
(* running together, one call per caller.                                  *)

\* Two of the storages: every stage stored, and the first stage of "a" broken.
MixedStorages ==
    {st \in IndexStorages :
        /\ st[CacheRepos[1]][[Digest |-> "a", UniqueID |-> 1]] = "absent"
        /\ \A id \in StageIDs :
              (id.Digest = "a" /\ id.UniqueID > 1) => st[PrimaryRepo][id] = "ok"
        /\ st[PrimaryRepo][[Digest |-> "a", UniqueID |-> 1]] # "absent"}

MixedCalls(p) ==
    GetCalls(p) \cup {c \in StoreCalls(p) : Len(c.ids) = 1}

IndexInit ==
    /\ pc = [p \in Callers |-> "start"]
    /\ op \in [Callers -> UNION {MixedCalls(p) : p \in Callers}]
    /\ \A p \in Callers : op[p] \in MixedCalls(p)
    /\ loc = [p \in Callers |-> NoLocals]
    /\ ret = [p \in Callers |-> Running]
    /\ index = EmptyIndex
    /\ cacheLock = NoLocks
    /\ lastOk = [digest \in Digests |-> 0]
    /\ storedUnlocked = FALSE
    /\ StagesStorage = PrimaryRepo
    /\ CacheStagesStorageList = <<CacheRepos[1]>>
    /\ storage \in MixedStorages
    /\ rejected = {}
    /\ manifestCache = {}
    /\ RsIdle
    /\ IxGetRest

IndexNext ==
    \E p \in Callers :
        \/ AsLock(p) /\ UNCHANGED <<cfgVars, envVars, rsVars>> /\ IxGetFrame
        \/ AsLockFails(p) /\ UNCHANGED <<cfgVars, envVars, rsVars>> /\ IxGetFrame
        \/ \E fails \in BOOLEAN :
              AsStore(p, fails) /\ UNCHANGED <<cfgVars, envVars, rsVars>> /\ IxGetFrame
        \/ AsReturn(p) /\ UNCHANGED <<cfgVars, envVars, rsVars>> /\ IxGetFrame
        \/ GsNext(p) /\ IxGetFrame

SpecIndex == IndexInit /\ [][IndexNext]_vars

\* The callers inside an index-writing section of a digest: between the lock
\* and the return of AtomicStoreStagesByDigestToCache or of the refresh.
InWritingSection(digest) ==
    {p \in Callers :
        /\ op[p].digest = digest
        /\ pc[p] \in {"as_store", "as_unlock", "gs_list", "gs_resolve", "gs_unlock"}}

\* C3: at most one index-writing section of a digest is in progress, and its
\* caller holds the lock of the digest; every store into the index was made by
\* the holder of the digest's lock; a call that has returned, with or without
\* error, holds no lock.
C3_IndexWritesOrderedByLock ==
    /\ \A digest \in Digests :
          /\ Cardinality(InWritingSection(digest)) <= 1
          /\ cacheLock[digest] = InWritingSection(digest)
    /\ ~storedUnlocked
    /\ \A p \in Callers :
          pc[p] = "done" => \A key \in DOMAIN cacheLock : p \notin cacheLock[key]

\* A refresh has returned with an error after taking the lock, and a store call
\* on the same digest is now inside its section.
C3_Witness ==
    \E p, q \in Callers :
        /\ op[p].name = "GetStagesByDigest"
        /\ pc[p] = "done" /\ ret[p].err = "error" /\ loc[p].err = "error"
        /\ op[q].name = "AtomicStoreStagesByDigestToCache"
        /\ op[q].digest = op[p].digest
        /\ pc[q] = "as_store"

-----------------------------------------------------------------------------
(* The fetch pipeline: LockStageImage, doFetchStage, FetchStage.           *)

\* The callers of FetchStage and of CopyStageIntoFinalRepo: two at a time.
Fetchers == {1, 2}

\* The stages that the callers fetch and replicate.
FetchStages == {[Digest |-> "a", UniqueID |-> 1], [Digest |-> "b", UniqueID |-> 1]}

\* stg.GetImage().Name(): a stage's image carries its name in the primary
\* stages storage.
StageImageName(stageID) == ConstructStageImageName(StagesStorage, stageID)

\* The lock of the repository of the image instead of the lock of the image.
LockNameOfRepository(imageName) == <<imageName[1]>>

\* container_runtime.ImageLockName(imageName): one lock per image name.
ImageLockName(imageName) == imageName

\* lockgate.AcquireOptions{Shared: true}
AcquireOptionsShared == TRUE

\* The names host locks are taken on.
HostLockNames ==
    {ConstructStageImageName(address, stageID) :
        address \in Addresses, stageID \in FetchStages}
        \cup {<<address>> : address \in Addresses}

\* The host's lock table with no lock held.
NoHostLocks == [name \in HostLockNames |-> [shared |-> {}, exclusive |-> FALSE]]

\* werf.AcquireHostLock: a shared acquisition waits for an exclusive holder
\* only, an exclusive one for every holder.
HostLockGrantable(locks, lockName, shared) ==
    IF shared THEN ~locks[lockName].exclusive
    ELSE ~locks[lockName].exclusive /\ locks[lockName].shared = {}

\* stagesStorage.ShouldFetchImage(ctx, img): the image is not in the local
\* runtime under that name.
ShouldFetchImage(images, imageName) == imageName \notin images

\* ErrStageNotFound
ErrStageNotFound == [err |-> "stage not found"]

\* fmt.Errorf("...: %s", err): a new error whose message ends with the message
\* of err.
Wrapped(err) == [err |-> "wrapped", cause |-> err]

\* IsStageNotFound(err): the message of err ends with that of ErrStageNotFound.
RECURSIVE IsStageNotFound(_)
IsStageNotFound(err) ==
    IF err = Nil THEN FALSE
    ELSE IF err = ErrStageNotFound THEN TRUE
    ELSE IF "cause" \in DOMAIN err THEN IsStageNotFound(err.cause)
    ELSE FALSE

\* The first half of doFetchStage, the manifest check: Nil and the fresh
\* description, ErrStageNotFound itself when the storage has no such stage, or
\* the storage's error wrapped.
doFetchStageCheck(st, rej, address, stageID, fails) ==
    LET fresh == StorageGetStageDescription(st, rej, address, stageID, fails)
    IN  IF "err" \in DOMAIN fresh THEN [err |-> Wrapped(fresh), desc |-> Nil]
        ELSE IF fresh = Nil THEN [err |-> ErrStageNotFound, desc |-> Nil]
        ELSE [err |-> Nil, desc |-> fresh]

\* The local variables of FetchStage and of CopyStageIntoFinalRepo around it:
\* seen is the registry as LockStageImage read it, i the cache storage being
\* probed, refill is cacheStagesStorageListToRefill and j the entry being
\* refilled, desc the description of the image in hand, fetched the storage the
\* image came from, calls the calls made to storages, runtime and caches,
\* lruErr tells that an AccessImage of the LRU images cache returned an error,
\* shouldFetch is the answer of the primary storage's ShouldFetchImage, true
\* until the storage answers otherwise, primaryErr the error doFetchStage
\* returned for the primary storage.
FetchLocals ==
    [seen |-> <<>>, i |-> 1, j |-> 1, refill |-> <<>>, desc |-> Nil,
     fetched |-> "", err |-> "", calls |-> <<>>, lruErr |-> FALSE,
     shouldFetch |-> TRUE, primaryErr |-> Nil]

\* lrumeta.CommonLRUImagesCache.AccessImage returned an error, or nil.
LruAccessed(l, failed) == [l EXCEPT !.lruErr = @ \/ failed]

Called(l, fn, address) == [l EXCEPT !.calls = Append(@, <<fn, address>>)]

\* Where FetchStage goes once cache storage i - 1 is behind it: the next cache
\* storage of m.CacheStagesStorageList, or the primary storage after the last.
ProbePc(i) ==
    IF i <= Len(CacheStagesStorageList) THEN "fs_probe" ELSE "fs_primary"

\* Where FetchStage goes once the image is fetched and entry j - 1 of the
\* refill list is behind it.
RefillPc(l) ==
    IF l.j <= Len(l.refill) THEN "fs_refill" ELSE "fs_ret"

\* The loop continues and the cache storage of the probe is forgotten.
ContinueWithoutRefill(l) == [l EXCEPT !.i = @ + 1, !.desc = Nil]

\* The cache storage of the probe is appended to the refill list and the loop
\* continues.
ToRefill(l) ==
    [l EXCEPT !.refill = Append(@, CacheStagesStorageList[l.i]),
              !.i = @ + 1, !.desc = Nil]

\* FetchStage ends with err.
FsEnd(p, l, err) ==
    /\ pc' = [pc EXCEPT ![p] = "fs_ret"]
    /\ loc' = [loc EXCEPT ![p] = [l EXCEPT !.err = err]]

\* LockStageImage: AcquireHostLock with Shared: true is granted, and the append
\* reads m.SharedHostImagesLocks.
FsLock(p) ==
    LET lockName == ImageLockName(StageImageName(op[p].stage))
    IN  /\ pc[p] = "fs_start"
        /\ HostLockGrantable(hostLock, lockName, AcquireOptionsShared)
        /\ hostLock' = [hostLock EXCEPT ![lockName] =
                           IF AcquireOptionsShared
                           THEN [@ EXCEPT !.shared = @ \cup {p}]
                           ELSE [@ EXCEPT !.exclusive = TRUE]]
        /\ loc' = [loc EXCEPT ![p].seen = SharedHostImagesLocks]
        /\ pc' = [pc EXCEPT ![p] = "fs_register"]
        /\ UNCHANGED <<op, ret, envVars, SharedHostImagesLocks, localImages, lruImages>>

\* The error of LockStageImage is dropped and the call goes on.
GoOnWithoutLock(err) == ""

\* if err := m.LockStageImage(...); err != nil { return fmt.Errorf(...) }: the
\* error FetchStage ends with when LockStageImage returned err.
LockStageImageError(err) == err

\* LockStageImage: AcquireHostLock fails and FetchStage returns the error.
FsLockFails(p) ==
    /\ pc[p] = "fs_start"
    /\ IF LockStageImageError("error") # ""
       THEN FsEnd(p, loc[p], LockStageImageError("error"))
       ELSE /\ pc' = [pc EXCEPT ![p] = "fs_should"]
            /\ UNCHANGED loc
    /\ UNCHANGED <<op, ret, envVars, hostVars>>

\* LockStageImage: the append writes m.SharedHostImagesLocks, the registry as
\* read with the new handle after it.
FsRegister(p) ==
    /\ pc[p] = "fs_register"
    /\ SharedHostImagesLocks' =
          Append(loc[p].seen, [name |-> ImageLockName(StageImageName(op[p].stage)),
                               holder |-> p])
    /\ pc' = [pc EXCEPT ![p] = "fs_should"]
    /\ UNCHANGED <<op, loc, ret, envVars, hostLock, localImages, lruImages>>

\* The cache storages are probed although the image exists locally.
ProbeAlthoughLocal(shouldFetch) == ProbePc(1)

\* The call ends after the LRU access whatever the primary storage answered.
ReturnWithoutFetch(shouldFetch) == "fs_exists"

\* if !shouldFetch { ... return nil }: an image that exists locally ends the
\* call after the LRU access, any other goes on to the cache storages.
AfterShouldFetch(shouldFetch) ==
    IF shouldFetch THEN ProbePc(1) ELSE "fs_exists"

\* FetchStage: m.StagesStorage.ShouldFetchImage on the stage's image.
FsShouldFetch(p, fails) ==
    LET l == Called(loc[p], "ShouldFetchImage", StagesStorage)
        shouldFetch == ShouldFetchImage(localImages, StageImageName(op[p].stage))
    IN  /\ pc[p] = "fs_should"
        /\ IF fails THEN FsEnd(p, l, "error")
           ELSE /\ loc' = [loc EXCEPT ![p] = [l EXCEPT !.shouldFetch = shouldFetch]]
                /\ pc' = [pc EXCEPT ![p] = AfterShouldFetch(shouldFetch)]
        /\ UNCHANGED <<op, ret, envVars, hostVars>>

\* The image exists locally and its description is stored into the manifest
\* cache before the LRU access.
ExistsStoringManifest(p, fails) ==
    LET imageName == ConstructStageImageName(StagesStorage, op[p].stage)
        l == LruAccessed(Called(loc[p], "AccessImage", StagesStorage), fails)
    IN  /\ pc[p] = "fs_exists"
        /\ IF fails
           THEN /\ FsEnd(p, l, "error")
                /\ UNCHANGED lruImages
           ELSE /\ FsEnd(p, l, "")
                /\ lruImages' = lruImages \cup {imageName}
        /\ manifestCache' =
              ManifestStoreImageInfo(manifestCache, StagesStorage,
                  StorageStageDescription(StagesStorage, op[p].stage).Info)
        /\ UNCHANGED <<op, ret, storage, rejected, hostLock,
                       SharedHostImagesLocks, localImages>>

\* FetchStage: the image exists locally; the LRU access is recorded, or fails
\* and FetchStage returns the error.
FsExists(p, fails) ==
    LET imageName == ConstructStageImageName(StagesStorage, op[p].stage)
        l == LruAccessed(Called(loc[p], "AccessImage", StagesStorage), fails)
    IN  /\ pc[p] = "fs_exists"
        /\ IF fails
           THEN /\ FsEnd(p, l, "error")
                /\ UNCHANGED lruImages
           ELSE /\ FsEnd(p, l, "")
                /\ lruImages' = lruImages \cup {imageName}
        /\ UNCHANGED <<op, ret, envVars, hostLock, SharedHostImagesLocks, localImages>>


\* fetchStageFromCache: ShouldFetchImage of cache storage i on the image under
\* that storage's name. NewStageImage gives the image no stage description.
FsProbe(p, fails) ==
    LET tier == CacheStagesStorageList[loc[p].i]
        imageName == ConstructStageImageName(tier, op[p].stage)
        l == Called(loc[p], "ShouldFetchImage", tier)
    IN  /\ pc[p] = "fs_probe"
        /\ IF fails
           THEN /\ loc' = [loc EXCEPT ![p] = ToRefill(l)]
                /\ pc' = [pc EXCEPT ![p] = ProbePc(l.i + 1)]
           ELSE /\ loc' = [loc EXCEPT ![p] = [l EXCEPT !.desc = Nil]]
                /\ pc' = [pc EXCEPT ![p] =
                            IF ShouldFetchImage(localImages, imageName)
                            THEN "fs_cache_check" ELSE "fs_cache_lru"]
        /\ UNCHANGED <<op, ret, envVars, hostVars>>

\* fetchStageFromCache: doFetchStage checks the manifest in the cache storage;
\* a stage not found or an error sends the storage to the refill list.
FsCacheCheck(p, fails) ==
    LET tier == CacheStagesStorageList[loc[p].i]
        l == Called(loc[p], "GetStageDescription", tier)
        res == doFetchStageCheck(storage, rejected, tier, op[p].stage, fails)
    IN  /\ pc[p] = "fs_cache_check"
        /\ IF res.err # Nil
           THEN /\ loc' = [loc EXCEPT ![p] = ToRefill(l)]
                /\ pc' = [pc EXCEPT ![p] = ProbePc(l.i + 1)]
           ELSE /\ loc' = [loc EXCEPT ![p] = [l EXCEPT !.desc = res.desc]]
                /\ pc' = [pc EXCEPT ![p] = "fs_cache_pull"]
        /\ UNCHANGED <<op, ret, envVars, hostVars>>

\* fetchStageFromCache: doFetchStage's FetchImage from the cache storage ends;
\* the image is local under the cache storage's name, or the pull failed.
FsCachePull(p, fails) ==
    LET tier == CacheStagesStorageList[loc[p].i]
        l == Called(loc[p], "FetchImage", tier)
    IN  /\ pc[p] = "fs_cache_pull"
        /\ IF fails
           THEN /\ loc' = [loc EXCEPT ![p] = ToRefill(l)]
                /\ pc' = [pc EXCEPT ![p] = ProbePc(l.i + 1)]
                /\ UNCHANGED localImages
           ELSE /\ loc' = [loc EXCEPT ![p] = l]
                /\ pc' = [pc EXCEPT ![p] = "fs_cache_manifest"]
                /\ localImages' =
                      localImages \cup {ConstructStageImageName(tier, op[p].stage)}
        /\ UNCHANGED <<op, ret, envVars, hostLock, SharedHostImagesLocks, lruImages>>

\* fetchStageFromCache: the fetched description is stored into the local
\* manifest cache under the cache storage.
FsCacheManifest(p, fails) ==
    LET tier == CacheStagesStorageList[loc[p].i]
        l == Called(loc[p], "StoreImageInfo", tier)
    IN  /\ pc[p] = "fs_cache_manifest"
        /\ IF fails
           THEN /\ loc' = [loc EXCEPT ![p] = ToRefill(l)]
                /\ pc' = [pc EXCEPT ![p] = ProbePc(l.i + 1)]
                /\ UNCHANGED manifestCache
           ELSE /\ loc' = [loc EXCEPT ![p] = l]
                /\ pc' = [pc EXCEPT ![p] = "fs_cache_lru"]
                /\ manifestCache' =
                      ManifestStoreImageInfo(manifestCache, tier, loc[p].desc.Info)
        /\ UNCHANGED <<op, ret, storage, rejected, hostVars>>

\* fetchStageFromCache: the LRU access of the image under the cache storage's
\* name, fetched now or local before.
FsCacheLru(p, fails) ==
    LET tier == CacheStagesStorageList[loc[p].i]
        l == LruAccessed(Called(loc[p], "AccessImage", tier), fails)
    IN  /\ pc[p] = "fs_cache_lru"
        /\ IF fails
           THEN /\ loc' = [loc EXCEPT ![p] = ToRefill(l)]
                /\ pc' = [pc EXCEPT ![p] = ProbePc(l.i + 1)]
                /\ UNCHANGED lruImages
           ELSE /\ loc' = [loc EXCEPT ![p] = l]
                /\ pc' = [pc EXCEPT ![p] = "fs_prepare"]
                /\ lruImages' =
                      lruImages \cup {ConstructStageImageName(tier, op[p].stage)}
        /\ UNCHANGED <<op, ret, envVars, hostLock, SharedHostImagesLocks, localImages>>

\* The steps of prepareCacheStageAsPrimary and of copyStageIntoStagesStorage
\* that can fail; "" is no failure.
PrepareFailures == {"", "rename", "refresh", "manifest", "lru"}

CopyFailures == {"", "rename", "store", "manifest", "lru"}

\* The loop goes on to the next cache storage after a promotion.
NoBreakAtPromotion(l, tier) ==
    [loc |-> [l EXCEPT !.fetched = tier, !.i = @ + 1], pc |-> ProbePc(l.i + 1)]

\* fetchedDockerImage = cacheDockerImage; break: the cache storage's image is
\* the fetched one and the loop over the cache storages ends.
BreakAtPromotion(l, tier) ==
    [loc |-> [l EXCEPT !.fetched = tier], pc |-> RefillPc(l)]

\* if err := prepareCacheStageAsPrimary(...); err != nil { ...; continue }: a
\* failed preparation sends the cache storage to the refill list and the loop
\* goes on, a successful one makes the image the fetched one.
AfterPrepare(l, tier, failed) ==
    IF failed THEN [loc |-> ToRefill(l), pc |-> ProbePc(l.i + 1)]
    ELSE BreakAtPromotion(l, tier)

\* prepareCacheStageAsPrimary: RenameImage to the primary name, RefreshImageObject,
\* the description rebranded to the primary storage into the manifest cache, the
\* LRU access. A failure sends the cache storage to the refill list, but the
\* message of a failed RenameImage is built from fetchedDockerImage.Image, and
\* fetchedDockerImage is nil as long as the loop runs: a nil dereference; and
\* rebranding the nil description of an image that was local already is a nil
\* dereference too.
FsPrepare(p, failAt) ==
    LET tier == CacheStagesStorageList[loc[p].i]
        primaryImageName == ConstructStageImageName(StagesStorage, op[p].stage)
        renamed == failAt # "rename"
        refreshed == renamed /\ failAt # "refresh"
        panics == \/ ~renamed /\ loc[p].fetched = ""
                  \/ refreshed /\ loc[p].desc = Nil
        stored == refreshed /\ ~panics /\ failAt # "manifest"
        accessed == stored /\ failAt # "lru"
        l1 == Called(loc[p], "RenameImage", StagesStorage)
        l2 == IF renamed THEN Called(l1, "RefreshImageObject", StagesStorage) ELSE l1
        l3 == IF refreshed /\ ~panics
              THEN Called(l2, "StoreImageInfo", StagesStorage) ELSE l2
        l4 == IF stored
              THEN LruAccessed(Called(l3, "AccessImage", StagesStorage),
                               failAt = "lru")
              ELSE l3
    IN  /\ pc[p] = "fs_prepare"
        /\ localImages' = IF renamed THEN localImages \cup {primaryImageName}
                          ELSE localImages
        /\ manifestCache' =
              IF stored
              THEN ManifestStoreImageInfo(manifestCache, StagesStorage,
                       convertStageDescriptionForStagesStorage(loc[p].desc,
                                                               StagesStorage).Info)
              ELSE manifestCache
        /\ lruImages' = IF accessed THEN lruImages \cup {primaryImageName}
                        ELSE lruImages
        /\ IF panics
           THEN /\ pc' = [pc EXCEPT ![p] = "panic"]
                /\ loc' = [loc EXCEPT ![p] = l4]
           ELSE /\ loc' = [loc EXCEPT ![p] = AfterPrepare(l4, tier, ~accessed).loc]
                /\ pc' = [pc EXCEPT ![p] = AfterPrepare(l4, tier, ~accessed).pc]
        /\ UNCHANGED <<op, ret, storage, rejected, hostLock, SharedHostImagesLocks>>

\* FetchStage: no cache storage gave the image; doFetchStage checks the
\* manifest in the primary storage. The error is compared with ErrStageNotFound
\* and with storage.ErrBrokenImage themselves: the first returns
\* ErrShouldResetStagesStorageCache, the second rejects the stage and returns
\* the same, any other error is returned wrapped.
FsPrimaryCheck(p, fails, rejectFails) ==
    LET res == doFetchStageCheck(storage, rejected, StagesStorage, op[p].stage, fails)
        l == [Called(loc[p], "GetStageDescription", StagesStorage)
                 EXCEPT !.primaryErr = res.err]
    IN  /\ pc[p] = "fs_primary"
        /\ IF res.err = ErrStageNotFound
           THEN /\ FsEnd(p, l, "reset")
                /\ UNCHANGED rejected
           ELSE IF res.err = ErrBrokenImage
           THEN IF rejectFails
                THEN /\ FsEnd(p, Called(l, "RejectStage", StagesStorage), "error")
                     /\ UNCHANGED rejected
                ELSE /\ FsEnd(p, Called(l, "RejectStage", StagesStorage), "reset")
                     /\ rejected' = rejected \cup {<<StagesStorage, op[p].stage>>}
           ELSE IF res.err # Nil
           THEN /\ FsEnd(p, l, "error")
                /\ UNCHANGED rejected
           ELSE /\ loc' = [loc EXCEPT ![p] = [l EXCEPT !.desc = res.desc]]
                /\ pc' = [pc EXCEPT ![p] = "fs_primary_pull"]
                /\ UNCHANGED rejected
        /\ UNCHANGED <<op, ret, storage, manifestCache, hostVars>>

\* FetchStage: doFetchStage's FetchImage from the primary storage ends; the
\* image is local under the stage's name, or the pull failed and its error is
\* returned wrapped.
FsPrimaryPull(p, fails) ==
    LET l == Called(loc[p], "FetchImage", StagesStorage)
    IN  /\ pc[p] = "fs_primary_pull"
        /\ IF fails
           THEN /\ FsEnd(p, [l EXCEPT !.primaryErr = Wrapped(ErrOther)], "error")
                /\ UNCHANGED localImages
           ELSE /\ loc' = [loc EXCEPT ![p] = [l EXCEPT !.fetched = StagesStorage]]
                /\ pc' = [pc EXCEPT ![p] = RefillPc(l)]
                /\ localImages' = localImages \cup {StageImageName(op[p].stage)}
        /\ UNCHANGED <<op, ret, envVars, hostLock, SharedHostImagesLocks, lruImages>>


\* FetchStage: copyStageIntoStagesStorage into entry j of the refill list:
\* RenameImage to the cache storage's name, StoreImage, the description
\* rebranded to the cache storage into the manifest cache, the LRU access. A
\* failure is a warning and the loop goes on.
FsRefill(p, failAt) ==
    LET tier == loc[p].refill[loc[p].j]
        targetImageName == ConstructStageImageName(tier, op[p].stage)
        renamed == failAt # "rename"
        stored == renamed /\ failAt # "store"
        cached == stored /\ failAt # "manifest"
        accessed == cached /\ failAt # "lru"
        l1 == Called(loc[p], "RenameImage", tier)
        l2 == IF renamed THEN Called(l1, "StoreImage", tier) ELSE l1
        l3 == IF stored THEN Called(l2, "StoreImageInfo", tier) ELSE l2
        l4 == IF cached
              THEN LruAccessed(Called(l3, "AccessImage", tier), failAt = "lru")
              ELSE l3
        l5 == [l4 EXCEPT !.j = @ + 1]
    IN  /\ pc[p] = "fs_refill"
        /\ localImages' = IF renamed THEN localImages \cup {targetImageName}
                          ELSE localImages
        /\ storage' = IF stored
                      THEN [storage EXCEPT ![tier][op[p].stage] = "ok"]
                      ELSE storage
        /\ manifestCache' =
              IF cached
              THEN ManifestStoreImageInfo(manifestCache, tier,
                       convertStageDescriptionForStagesStorage(loc[p].desc, tier).Info)
              ELSE manifestCache
        /\ lruImages' = IF accessed THEN lruImages \cup {targetImageName}
                        ELSE lruImages
        /\ loc' = [loc EXCEPT ![p] = l5]
        /\ pc' = [pc EXCEPT ![p] = RefillPc(l5)]
        /\ UNCHANGED <<op, ret, rejected, hostLock, SharedHostImagesLocks>>

\* FetchStage returns to the caller that called it.
FsReturn(p) ==
    /\ pc[p] = "fs_ret"
    /\ op[p].name = "FetchStage"
    /\ pc' = [pc EXCEPT ![p] = "done"]
    /\ ret' = [ret EXCEPT ![p] = Returned(loc[p].err, <<>>)]
    /\ UNCHANGED <<op, loc, envVars, hostVars>>

\* The failures a specification lets the calls of FetchStage meet: of the
\* storages' and caches' answers, of the pulls, of the steps of a preparation
\* and of a copy.
EveryFetchFailure ==
    [call |-> BOOLEAN, pull |-> BOOLEAN,
     prepare |-> PrepareFailures, copy |-> CopyFailures]

\* Pulls and copies into a cache storage may fail, nothing else does.
PullAndStoreFailures ==
    [call |-> {FALSE}, pull |-> BOOLEAN, prepare |-> {""}, copy |-> {"", "store"}]

\* The steps of FetchStage on the host and on the primary storage.
FsPrimarySteps(p, failures) ==
    \/ FsLock(p)
    \/ FsLockFails(p)
    \/ FsRegister(p)
    \/ \E fails \in failures.call : FsShouldFetch(p, fails)
    \/ \E fails \in failures.call : FsExists(p, fails)
    \/ \E fails, rejectFails \in failures.call : FsPrimaryCheck(p, fails, rejectFails)
    \/ \E fails \in failures.pull : FsPrimaryPull(p, fails)

\* The steps of FetchStage on the cache storages, which a manager with
\* no cache storage never takes.
FsCacheSteps(p, failures) ==
    \/ \E fails \in failures.call : FsProbe(p, fails)
    \/ \E fails \in failures.call : FsCacheCheck(p, fails)
    \/ \E fails \in failures.pull : FsCachePull(p, fails)
    \/ \E fails \in failures.call : FsCacheManifest(p, fails)
    \/ \E fails \in failures.call : FsCacheLru(p, fails)
    \/ \E failAt \in failures.prepare : FsPrepare(p, failAt)
    \/ \E failAt \in failures.copy : FsRefill(p, failAt)

\* The steps of FetchStage, whoever called it.
FsNext(p, failures) == FsPrimarySteps(p, failures) \/ FsCacheSteps(p, failures)

\* The host's image cleanup starts on an image: it takes the image's host lock
\* exclusively.
HostCleanupLock(imageName) ==
    /\ imageName \in localImages
    /\ HostLockGrantable(hostLock, imageName, FALSE)
    /\ hostLock' = [hostLock EXCEPT ![imageName].exclusive = TRUE]
    /\ UNCHANGED <<procVars, envVars, SharedHostImagesLocks, localImages, lruImages>>

\* The host's image cleanup removes the image it locked and releases the lock.
HostCleanupRemove(imageName) ==
    /\ hostLock[imageName].exclusive
    /\ localImages' = localImages \ {imageName}
    /\ hostLock' = [hostLock EXCEPT ![imageName].exclusive = FALSE]
    /\ UNCHANGED <<procVars, envVars, SharedHostImagesLocks, lruImages>>

\* The storages of SpecFetch: the fetched stages are stored, absent or broken in
\* the primary storage and in the cache storage.
FetchStorages ==
    {[address \in {PrimaryRepo, CacheRepos[1]} |->
         [id \in StageIDs |->
             IF id \notin FetchStages THEN "absent"
             ELSE IF address = PrimaryRepo THEN primary ELSE cache]] :
        primary \in {"ok", "absent", "broken"}, cache \in {"ok", "absent"}}

\* The images of the first stage that may be local before the calls.
LocalBefore ==
    {ConstructStageImageName(address, [Digest |-> "a", UniqueID |-> 1]) :
        address \in {PrimaryRepo, CacheRepos[1]}}

\* The first caller fetches the first stage, the others a stage of their choice.
FetchCalls(p) ==
    {c \in [name : {"FetchStage"}, stage : FetchStages] :
        p = 1 => c.stage = [Digest |-> "a", UniqueID |-> 1]}

FsRest == RbIdle /\ RsIdle /\ IxIdle /\ FinIdle /\ FeIdle /\ FnIdle

FsFrame == UNCHANGED <<rbVars, cfgVars, rsVars, ixVars, finVars, feVars, fnVars>>

FetchInit ==
    /\ pc = [p \in Fetchers |-> "fs_start"]
    /\ op \in [Fetchers -> UNION {FetchCalls(p) : p \in Fetchers}]
    /\ \A p \in Fetchers : op[p] \in FetchCalls(p)
    /\ loc = [p \in Fetchers |-> FetchLocals]
    /\ ret = [p \in Fetchers |-> Running]
    /\ StagesStorage = PrimaryRepo
    /\ CacheStagesStorageList = <<CacheRepos[1]>>
    /\ storage \in FetchStorages
    /\ rejected = {}
    /\ manifestCache = {}
    /\ hostLock = NoHostLocks
    /\ SharedHostImagesLocks = <<>>
    /\ localImages \in SUBSET LocalBefore
    /\ lruImages = {}
    /\ FsRest

FetchNext ==
    \/ \E p \in Fetchers : FsNext(p, PullAndStoreFailures) /\ FsFrame
    \/ \E p \in Fetchers : FsReturn(p) /\ FsFrame
    \/ \E imageName \in LocalBefore : HostCleanupLock(imageName) /\ FsFrame
    \/ \E imageName \in LocalBefore : HostCleanupRemove(imageName) /\ FsFrame

SpecFetch == FetchInit /\ [][FetchNext]_vars

\* The callers that are inside FetchStage with the host lock taken.
FetchingUnderLock ==
    {p \in Fetchers :
        pc[p] \in {"fs_register", "fs_should", "fs_exists", "fs_probe",
                   "fs_cache_check", "fs_cache_pull", "fs_cache_manifest",
                   "fs_cache_lru", "fs_prepare", "fs_primary", "fs_primary_pull",
                   "fs_refill"}}

\* The callers whose FetchImage is pulling the image of that name.
PullingImage(imageName) ==
    {p \in Fetchers :
        \/ /\ pc[p] = "fs_primary_pull"
           /\ ConstructStageImageName(StagesStorage, op[p].stage) = imageName
        \/ /\ pc[p] = "fs_cache_pull"
           /\ ConstructStageImageName(CacheStagesStorageList[loc[p].i],
                                      op[p].stage) = imageName}

\* C1 as claimed: at every instant at most one FetchStage is pulling the image
\* of a given local name.
C1_AtMostOnePullPerImage ==
    \A imageName \in HostLockNames : Cardinality(PullingImage(imageName)) <= 1

\* C1 as the code has it: the lock is shared, so it does not keep FetchStage
\* calls apart; every FetchStage past LockStageImage holds the lock of its
\* stage's image name, shared, and while it does no exclusive holder (the
\* host's cleanup) has that name.
C1_SharedLockExcludesOnlyExclusive ==
    \A p \in FetchingUnderLock :
        /\ p \in hostLock[StageImageName(op[p].stage)].shared
        /\ ~hostLock[StageImageName(op[p].stage)].exclusive

\* Two FetchStage calls hold the same image's lock and pull that image from the
\* primary storage at the same instant, after the cleanup removed an image.
C1_Witness ==
    \E p, q \in Fetchers :
        /\ p # q
        /\ op[p].stage = op[q].stage
        /\ pc[p] = "fs_primary_pull" /\ pc[q] = "fs_primary_pull"
        /\ {p, q} \subseteq hostLock[StageImageName(op[p].stage)].shared
        /\ LocalBefore \ localImages # {}

-----------------------------------------------------------------------------
(* The final stages storage: getOrCreateFinalStagesListCache,              *)
(* CopyStageIntoFinalRepo and GetFinalStageDescriptionList.                *)

\* m.FinalStagesStorage
FinalStagesStorage == FinalRepo

\* The callers make up to MaxCalls calls between them, a caller one after the
\* other.
MaxCalls == 2

\* The order a storage lists the digests of its stages in.
DigestOrder == <<"a", "b">>

\* stagesStorage.GetStagesIDs(ctx, projectName): the stages the storage holds.
RECURSIVE StorageGetStagesIDsFrom(_, _, _, _)
StorageGetStagesIDsFrom(n, st, rej, address) ==
    IF n > Len(DigestOrder) THEN <<>>
    ELSE StorageGetStagesIDsByDigest(st, rej, address, DigestOrder[n])
            \o StorageGetStagesIDsFrom(n + 1, st, rej, address)

StorageGetStagesIDs(st, rej, address) == StorageGetStagesIDsFrom(1, st, rej, address)

\* A copy of the list without its last stage ID.
GetStageIDsButLast(stageIDs) ==
    IF stageIDs = <<>> THEN <<>> ELSE SubSeq(stageIDs, 1, Len(stageIDs) - 1)

\* StagesList.GetStageIDs: a copy of the list, made under the list's Mux.
GetStageIDs(stageIDs) == stageIDs

\* An append with no look at what the list holds.
AppendStageID(stageIDs, stageID) == Append(stageIDs, stageID)

\* StagesList.AddStageID: the list as it is when it holds the stage ID, with
\* the stage ID appended when it does not.
AddStageID(stageIDs, stageID) ==
    IF \E n \in 1..Len(stageIDs) : stageIDs[n] = stageID
    THEN stageIDs
    ELSE Append(stageIDs, stageID)

\* A check that finds no stage.
StageNeverListed(stageIDs, stageID) == FALSE

\* CopyStageIntoFinalRepo: some existingStg of the list IsEqual to the stage.
StageListed(stageIDs, stageID) ==
    \E n \in 1..Len(stageIDs) : stageIDs[n] = stageID

\* The number of entries of the list equal to the stage ID.
Occurrences(stageIDs, stageID) ==
    Cardinality({n \in 1..Len(stageIDs) : stageIDs[n] = stageID})

\* The locals of a call on the final storage: those of FetchStage, and short
\* (the call ended at the already-exists check), ids, k and stages (the list
\* being resolved) and copiedBefore (the stages whose replication had returned
\* success when the call began).
FinalLocals ==
    [seen |-> <<>>, i |-> 1, j |-> 1, refill |-> <<>>, desc |-> Nil,
     fetched |-> "", err |-> "", calls |-> <<>>, lruErr |-> FALSE,
     shouldFetch |-> TRUE, primaryErr |-> Nil, short |-> FALSE, ids |-> <<>>,
     k |-> 1, stages |-> <<>>, copiedBefore |-> {}]

\* Nothing done to the final storage yet: ncalls counts the calls begun, stores
\* the StoreImage calls per stage, listings the GetStagesIDs calls that
\* succeeded, copied holds the stages whose CopyStageIntoFinalRepo returned
\* success, unguarded tells that StageIDs was read while another caller held the
\* list's Mux.
NoFinalStats ==
    [ncalls |-> 0, stores |-> [id \in StageIDs |-> 0], listings |-> 0,
     copied |-> {}, unguarded |-> FALSE]

FinalCalls ==
    [name : {"CopyStageIntoFinalRepo"}, stage : FetchStages]
        \cup {[name |-> "GetFinalStageDescriptionList"]}

\* A call returns err and, for a list operation, stages.
CallEnd(p, err, stages) ==
    /\ pc' = [pc EXCEPT ![p] = "done"]
    /\ ret' = [ret EXCEPT ![p] = Returned(err, stages)]

\* A caller begins its next call.
CallStart(p, call) ==
    /\ pc[p] \in {"idle", "done"}
    /\ finalStats.ncalls < MaxCalls
    /\ finalStats' = [finalStats EXCEPT !.ncalls = @ + 1]
    /\ op' = [op EXCEPT ![p] = call]
    /\ pc' = [pc EXCEPT ![p] = "gc_lock"]
    /\ ret' = [ret EXCEPT ![p] = Running]
    /\ loc' = [loc EXCEPT ![p] =
                  [FinalLocals EXCEPT !.copiedBefore = finalStats.copied]]
    /\ UNCHANGED <<cfgVars, rsVars, envVars, hostVars, FinalStagesListCache,
                   FinalStagesListCacheMux, StagesListMux>>

\* getOrCreateFinalStagesListCache: m.FinalStagesListCacheMux.Lock().
GcLock(p) ==
    /\ pc[p] = "gc_lock"
    /\ FinalStagesListCacheMux = 0
    /\ FinalStagesListCacheMux' = p
    /\ pc' = [pc EXCEPT ![p] = "gc_body"]
    /\ UNCHANGED <<op, loc, ret, cfgVars, rsVars, envVars, hostVars,
                   FinalStagesListCache, StagesListMux, finalStats>>

\* A check that never finds the list made.
ListCacheNeverSet(cache) == FALSE

\* getOrCreateFinalStagesListCache: m.FinalStagesListCache != nil.
ListCacheIsSet(cache) == cache # Nil

\* getOrCreateFinalStagesListCache under the mutex: the list there is, or the
\* list made of the final storage's GetStagesIDs, or the error of that call;
\* the deferred Unlock runs.
GcBody(p, fails) ==
    LET after == IF op[p].name = "CopyStageIntoFinalRepo" THEN "cf_log"
                 ELSE IF op[p].name = "InitCache" THEN "ic_ret"
                 ELSE "gf_log"
    IN  /\ pc[p] = "gc_body"
        /\ FinalStagesListCacheMux' = 0
        /\ IF ListCacheIsSet(FinalStagesListCache)
           THEN /\ pc' = [pc EXCEPT ![p] = after]
                /\ UNCHANGED <<ret, FinalStagesListCache, finalStats>>
           ELSE IF fails
           THEN /\ CallEnd(p, "error", <<>>)
                /\ UNCHANGED <<FinalStagesListCache, finalStats>>
           ELSE /\ FinalStagesListCache' =
                      [StageIDs |-> StorageGetStagesIDs(storage, rejected,
                                                        FinalStagesStorage)]
                /\ finalStats' = [finalStats EXCEPT !.listings = @ + 1]
                /\ pc' = [pc EXCEPT ![p] = after]
                /\ UNCHANGED ret
        /\ UNCHANGED <<op, loc, cfgVars, rsVars, envVars, hostVars, StagesListMux>>

\* The debug log of CopyStageIntoFinalRepo and of GetFinalStageDescriptionList
\* reads the list's StageIDs without the list's Mux.
LogStageIDs(p) ==
    /\ pc[p] \in {"cf_log", "gf_log"}
    /\ finalStats' = [finalStats EXCEPT
                         !.unguarded = @ \/ StagesListMux \notin {0, p}]
    /\ pc' = [pc EXCEPT ![p] = IF pc[p] = "cf_log" THEN "cf_check" ELSE "gf_ids"]
    /\ UNCHANGED <<op, loc, ret, cfgVars, rsVars, envVars, hostVars,
                   FinalStagesListCache, FinalStagesListCacheMux, StagesListMux>>

\* CopyStageIntoFinalRepo: the stage is looked for in GetStageIDs(); found, the
\* call returns nil, else FetchStage begins.
CfCheck(p) ==
    /\ pc[p] = "cf_check"
    /\ StagesListMux = 0
    /\ IF StageListed(GetStageIDs(FinalStagesListCache.StageIDs), op[p].stage)
       THEN /\ CallEnd(p, "", <<>>)
            /\ loc' = [loc EXCEPT ![p].short = TRUE]
            /\ finalStats' = [finalStats EXCEPT !.copied = @ \cup {op[p].stage}]
       ELSE /\ pc' = [pc EXCEPT ![p] = "fs_start"]
            /\ UNCHANGED <<loc, ret, finalStats>>
    /\ UNCHANGED <<op, cfgVars, rsVars, envVars, hostVars,
                   FinalStagesListCache, FinalStagesListCacheMux, StagesListMux>>

\* CopyStageIntoFinalRepo: FetchStage has returned; its error is returned
\* wrapped, or the copy begins.
CfFetched(p) ==
    /\ pc[p] = "fs_ret"
    /\ op[p].name = "CopyStageIntoFinalRepo"
    /\ IF loc[p].err # ""
       THEN CallEnd(p, loc[p].err, <<>>)
       ELSE /\ pc' = [pc EXCEPT ![p] = "cf_copy"]
            /\ UNCHANGED ret
    /\ UNCHANGED <<op, loc, cfgVars, rsVars, envVars, hostVars, finVars>>


\* The stage is added to the list whatever the copy returned.
AddDespiteCopyError(failed) == "cf_add"

\* CopyStageIntoFinalRepo after the copy: its error is returned, or AddStageID
\* follows.
AfterFinalCopy(failed) == IF failed THEN "done" ELSE "cf_add"

\* CopyStageIntoFinalRepo: copyStageIntoStagesStorage into the final storage:
\* RenameImage to the final name, StoreImage, the description rebranded to the
\* final storage into the manifest cache, the LRU access; a failure is returned.
CfCopy(p, failAt) ==
    LET finalImageName == ConstructStageImageName(FinalStagesStorage, op[p].stage)
        stageDesc == StorageStageDescription(StagesStorage, op[p].stage)
        renamed == failAt # "rename"
        stored == renamed /\ failAt # "store"
        cached == stored /\ failAt # "manifest"
        accessed == cached /\ failAt # "lru"
        l1 == Called(loc[p], "RenameImage", FinalStagesStorage)
        l2 == IF renamed THEN Called(l1, "StoreImage", FinalStagesStorage) ELSE l1
        l3 == IF stored THEN Called(l2, "StoreImageInfo", FinalStagesStorage) ELSE l2
        l4 == IF cached
              THEN LruAccessed(Called(l3, "AccessImage", FinalStagesStorage),
                               failAt = "lru")
              ELSE l3
    IN  /\ pc[p] = "cf_copy"
        /\ localImages' = IF renamed THEN localImages \cup {finalImageName}
                          ELSE localImages
        /\ storage' = IF stored
                      THEN [storage EXCEPT ![FinalStagesStorage][op[p].stage] = "ok"]
                      ELSE storage
        /\ finalStats' = IF renamed
                         THEN [finalStats EXCEPT !.stores[op[p].stage] = @ + 1]
                         ELSE finalStats
        /\ manifestCache' =
              IF cached
              THEN ManifestStoreImageInfo(manifestCache, FinalStagesStorage,
                       convertStageDescriptionForStagesStorage(
                           stageDesc, FinalStagesStorage).Info)
              ELSE manifestCache
        /\ lruImages' = IF accessed THEN lruImages \cup {finalImageName}
                        ELSE lruImages
        /\ loc' = [loc EXCEPT ![p] = l4]
        /\ IF AfterFinalCopy(~accessed) = "cf_add"
           THEN /\ pc' = [pc EXCEPT ![p] = "cf_add"]
                /\ UNCHANGED ret
           ELSE CallEnd(p, "error", <<>>)
        /\ UNCHANGED <<op, cfgVars, rsVars, rejected, hostLock, SharedHostImagesLocks,
                       FinalStagesListCache, FinalStagesListCacheMux, StagesListMux>>

\* AddStageID: stages.Mux.Lock().
CfAddLock(p) ==
    /\ pc[p] = "cf_add"
    /\ StagesListMux = 0
    /\ StagesListMux' = p
    /\ pc' = [pc EXCEPT ![p] = "cf_add_body"]
    /\ UNCHANGED <<op, loc, ret, cfgVars, rsVars, envVars, hostVars,
                   FinalStagesListCache, FinalStagesListCacheMux, finalStats>>

\* AddStageID under the Mux, and the deferred Unlock.
CfAdd(p) ==
    /\ pc[p] = "cf_add_body"
    /\ FinalStagesListCache' =
          [FinalStagesListCache EXCEPT !.StageIDs = AddStageID(@, op[p].stage)]
    /\ StagesListMux' = 0
    /\ pc' = [pc EXCEPT ![p] = "cf_ret"]
    /\ UNCHANGED <<op, loc, ret, cfgVars, rsVars, envVars, hostVars,
                   FinalStagesListCacheMux, finalStats>>

\* CopyStageIntoFinalRepo: the debug log reads StageIDs without the Mux and the
\* call returns nil.
CfReturn(p) ==
    /\ pc[p] = "cf_ret"
    /\ CallEnd(p, "", <<>>)
    /\ finalStats' = [finalStats EXCEPT
                         !.copied = @ \cup {op[p].stage},
                         !.unguarded = @ \/ StagesListMux \notin {0, p}]
    /\ UNCHANGED <<op, loc, cfgVars, rsVars, envVars, hostVars,
                   FinalStagesListCache, FinalStagesListCacheMux, StagesListMux>>

\* GetFinalStageDescriptionList: existingStagesListCache.GetStageIDs().
GfIDs(p) ==
    /\ pc[p] = "gf_ids"
    /\ StagesListMux = 0
    /\ loc' = [loc EXCEPT ![p].ids = GetStageIDs(FinalStagesListCache.StageIDs),
                          ![p].k = 1]
    /\ pc' = [pc EXCEPT ![p] = "gf_resolve"]
    /\ UNCHANGED <<op, ret, cfgVars, rsVars, envVars, hostVars, finVars>>

\* The options GetFinalStageDescriptionList resolves the listed stage IDs with.
GetFinalStageDescriptionListOptions ==
    [AllowStagesStorageCacheReset |-> TRUE, WithLocalManifestCache |-> TRUE]

\* GetFinalStageDescriptionList: the task of the next stage ID resolves it
\* against the final storage, with no cache storages, with
\* AllowStagesStorageCacheReset and with the manifest cache; an error ends the
\* call.
GfResolve(p, plan) ==
    /\ pc[p] = "gf_resolve"
    /\ loc[p].k <= Len(loc[p].ids)
    /\ \E out \in {getStageDescription(
                      storage, manifestCache, rejected, loc[p].ids[loc[p].k],
                      FinalStagesStorage, <<>>,
                      GetFinalStageDescriptionListOptions, plan)} :
          /\ ApplyOutcome(out)
          /\ IF out.kind \in {"error", "reset"}
             THEN /\ CallEnd(p, out.kind, <<>>)
                  /\ UNCHANGED loc
             ELSE /\ loc' = [loc EXCEPT ![p].k = @ + 1,
                                        ![p].stages = Append(@, DescID(out.desc))]
                  /\ UNCHANGED <<pc, ret>>
    /\ UNCHANGED <<op, hostVars, finVars>>

\* GetFinalStageDescriptionList returns the descriptions.
GfReturn(p) ==
    /\ pc[p] = "gf_resolve"
    /\ loc[p].k > Len(loc[p].ids)
    /\ CallEnd(p, "", loc[p].stages)
    /\ UNCHANGED <<op, loc, cfgVars, rsVars, envVars, hostVars, finVars>>

\* A stage is deleted from the final storage: by ForEachDeleteFinalStage, which
\* leaves the list alone, or by another process.
FinalStageDeleted(stageID) ==
    /\ storage[FinalStagesStorage][stageID] = "ok"
    /\ storage' = [storage EXCEPT ![FinalStagesStorage][stageID] = "absent"]
    /\ UNCHANGED <<procVars, cfgVars, rsVars, rejected, manifestCache, hostVars,
                   finVars>>

\* The storages of SpecFinal: the stages to replicate are in the primary
\* storage or in no storage, and the final storage holds the second of them or
\* nothing.
FinalStorages ==
    {[address \in {PrimaryRepo, FinalRepo} |->
         [id \in StageIDs |->
             IF id \notin FetchStages THEN "absent"
             ELSE IF address = PrimaryRepo THEN primary
             ELSE IF id.Digest = "b" /\ final THEN "ok" ELSE "absent"]] :
        primary \in {"ok", "absent"}, final \in BOOLEAN}

FinRest == RbIdle /\ IxIdle /\ FeIdle /\ FnIdle

FinFrame == UNCHANGED <<rbVars, ixVars, feVars, fnVars>>

FinalInit ==
    /\ pc = [p \in Fetchers |-> "idle"]
    /\ op = [p \in Fetchers |-> None]
    /\ loc = [p \in Fetchers |-> FinalLocals]
    /\ ret = [p \in Fetchers |-> Running]
    /\ StagesStorage = PrimaryRepo
    /\ CacheStagesStorageList = <<>>
    /\ storage \in FinalStorages
    /\ rejected = {}
    /\ manifestCache = {}
    /\ RsIdle
    /\ hostLock = NoHostLocks
    /\ SharedHostImagesLocks = <<>>
    /\ localImages \in {{}, {ConstructStageImageName(PrimaryRepo,
                                 [Digest |-> "a", UniqueID |-> 1])}}
    /\ lruImages = {}
    /\ FinalStagesListCache = Nil
    /\ FinalStagesListCacheMux = 0
    /\ StagesListMux = 0
    /\ finalStats = NoFinalStats
    /\ FinRest

FinalNext ==
    \/ \E p \in Fetchers, call \in FinalCalls : CallStart(p, call) /\ FinFrame
    \/ \E p \in Fetchers : GcLock(p) /\ FinFrame
    \/ \E p \in Fetchers, fails \in BOOLEAN : GcBody(p, fails) /\ FinFrame
    \/ \E p \in Fetchers : LogStageIDs(p) /\ FinFrame
    \/ \E p \in Fetchers : CfCheck(p) /\ FinFrame
    \/ \E p \in Fetchers : FsPrimarySteps(p, PullAndStoreFailures) /\ FsFrame
    \/ \E p \in Fetchers : CfFetched(p) /\ FinFrame
    \/ \E p \in Fetchers, failAt \in {"", "store"} : CfCopy(p, failAt) /\ FinFrame
    \/ \E p \in Fetchers : CfAddLock(p) /\ FinFrame
    \/ \E p \in Fetchers : CfAdd(p) /\ FinFrame
    \/ \E p \in Fetchers : CfReturn(p) /\ FinFrame
    \/ \E p \in Fetchers : GfIDs(p) /\ FinFrame
    \/ \E p \in Fetchers, plan \in {NoFaults, [NoFaults EXCEPT !.target = TRUE]} :
          GfResolve(p, plan) /\ FinFrame
    \/ \E p \in Fetchers : GfReturn(p) /\ FinFrame
    \/ \E stageID \in FetchStages : FinalStageDeleted(stageID) /\ FinFrame

SpecFinal == FinalInit /\ [][FinalNext]_vars


\* C5: a GetFinalStageDescriptionList call that returns success returns, for
\* every stage whose CopyStageIntoFinalRepo had returned success when the call
\* began, a description of that stage ID.
C5_CopiedStagesAreListed ==
    \A p \in Fetchers :
        (/\ pc[p] = "done"
         /\ op[p].name = "GetFinalStageDescriptionList"
         /\ ret[p].err = "")
        => \A stageID \in loc[p].copiedBefore :
              \E n \in 1..Len(ret[p].stages) : ret[p].stages[n] = stageID

\* A list call has returned two descriptions, one of them of a stage that a
\* call before it stored into the final storage.
C5_Witness ==
    \E p \in Fetchers :
        /\ pc[p] = "done"
        /\ op[p].name = "GetFinalStageDescriptionList"
        /\ ret[p].err = ""
        /\ Len(ret[p].stages) = 2
        /\ \E stageID \in loc[p].copiedBefore : finalStats.stores[stageID] = 1

\* C6: a CopyStageIntoFinalRepo call for a stage whose replication has returned
\* success before the call began fetches, renames and stores nothing: it goes
\* from the list to the already-exists check and returns success there.
C6_SecondCopyShortCircuits ==
    \A p \in Fetchers :
        (/\ pc[p] # "idle"
         /\ op[p].name = "CopyStageIntoFinalRepo"
         /\ op[p].stage \in loc[p].copiedBefore)
        => /\ pc[p] \in {"gc_lock", "gc_body", "cf_log", "cf_check", "done"}
           /\ loc[p].calls = <<>>
           /\ pc[p] = "done" => (ret[p].err = "" /\ loc[p].short)

\* The second of two calls for a stage has returned at the already-exists
\* check, and the stage has been stored once.
C6_Witness ==
    \E p \in Fetchers :
        /\ pc[p] = "done"
        /\ op[p].name = "CopyStageIntoFinalRepo"
        /\ op[p].stage \in loc[p].copiedBefore
        /\ loc[p].short
        /\ finalStats.stores[op[p].stage] = 1

\* C7: the list never holds a stage ID twice, and it holds exactly once the ID
\* of every stage whose CopyStageIntoFinalRepo has returned success, however
\* the calls interleave.
C7_OneEntryPerCopiedStage ==
    FinalStagesListCache # Nil =>
        \A stageID \in StageIDs :
            /\ Occurrences(FinalStagesListCache.StageIDs, stageID) <= 1
            /\ stageID \in finalStats.copied
                  => Occurrences(FinalStagesListCache.StageIDs, stageID) = 1

\* Two concurrent calls for one stage both missed the list, both stored the
\* stage and both returned success; the list holds the stage once.
C7_Witness ==
    \E p, q \in Fetchers :
        /\ p # q
        /\ pc[p] = "done" /\ pc[q] = "done"
        /\ op[p].name = "CopyStageIntoFinalRepo" /\ op[q] = op[p]
        /\ ret[p].err = "" /\ ret[q].err = ""
        /\ ~loc[p].short /\ ~loc[q].short
        /\ finalStats.stores[op[p].stage] = 2
        /\ Occurrences(FinalStagesListCache.StageIDs, op[p].stage) = 1

-----------------------------------------------------------------------------
(* Parallelism and the for-each operations over parallel.DoTasks.          *)

\* The longest list of items a for-each operation is given.
MaxItems == 4

\* The largest parallelTasksLimit given to EnableParallel; the smallest is -1.
MaxTasksLimit == 2

\* The limit as EnableParallel was given it, zero or negative included.
ParallelTasksLimitAsGiven(par, limit) == IF par THEN limit ELSE 1

\* MaxNumberOfWorkers(): parallelTasksLimit when parallel and the limit is
\* positive, else 1.
MaxNumberOfWorkers(par, limit) == IF par /\ limit > 0 THEN limit ELSE 1

\* One worker more than MaxNumberOfWorkers().
OneWorkerMore(par, limit) == MaxNumberOfWorkers(par, limit) + 1

\* parallel.DoTasksOptions{MaxNumberOfWorkers: m.MaxNumberOfWorkers()}: what the
\* for-each operations pass to DoTasks.
DoTasksOptionsWorkers(par, limit) == MaxNumberOfWorkers(par, limit)

ForEachStageOperations == {"ForEachDeleteStage", "ForEachDeleteFinalStage"}

ForEachOperations ==
    ForEachStageOperations \cup
        {"ForEachRmImageMetadata", "ForEachRmManagedImage",
         "ForEachGetImportMetadata", "ForEachRmImportMetadata"}

\* The stage IDs in the order the stage operations are given them.
RECURSIVE StageSeqFrom(_)
StageSeqFrom(n) ==
    IF n > Len(DigestOrder) THEN <<>>
    ELSE IDsOfDigest(DigestOrder[n]) \o StageSeqFrom(n + 1)

\* The items of an operation: n stage descriptions, or n names of metadata.
ForEachItems(name, n) ==
    IF name \in ForEachStageOperations
    THEN SubSeq(StageSeqFrom(1), 1, n)
    ELSE [k \in 1..n |-> <<"item", k>>]

\* m.EnableParallel(parallelTasksLimit), at configuration time.
EnableParallel(limit) ==
    /\ doTasks = None
    /\ parallel' = TRUE
    /\ parallelTasksLimit' = limit
    /\ UNCHANGED <<doTasks, cfgVars, envVars, ixVars>>

\* A for-each operation is called. ForEachDeleteStage begins with the filter
\* and the purge of the index, the others with DoTasks at once.
ForEachCall(name, n) ==
    /\ doTasks = None
    /\ doTasks' =
          [name |-> name,
           items |-> ForEachItems(name, n),
           at |-> IF name = "ForEachDeleteStage" THEN "filter" ELSE "tasks",
           purged |-> 0,
           workers |-> DoTasksOptionsWorkers(parallel, parallelTasksLimit),
           next |-> 1,
           running |-> {},
           attempts |-> [k \in 1..n |-> 0],
           called |-> [k \in 1..n |-> 0],
           calls |-> [k \in 1..n |-> <<>>],
           given |-> [k \in 1..n |-> <<>>],
           failed |-> {},
           cancelled |-> FALSE,
           err |-> ""]
    /\ UNCHANGED <<parallel, parallelTasksLimit, cfgVars, envVars, ixVars>>

\* ForEachDeleteStage: a local primary storage filters the descriptions, which
\* may fail or drop the last of them; another storage filters nothing.
FeFilter(fails, drops) ==
    /\ doTasks # None
    /\ doTasks.at = "filter"
    /\ IF StagesStorage # LocalStorageAddress
       THEN doTasks' = [doTasks EXCEPT !.at = "purge"]
       ELSE IF fails
       THEN doTasks' = [doTasks EXCEPT !.at = "returned", !.err = "error"]
       ELSE LET kept == IF drops /\ doTasks.items # <<>>
                        THEN SubSeq(doTasks.items, 1, Len(doTasks.items) - 1)
                        ELSE doTasks.items
            IN  doTasks' = [doTasks EXCEPT
                               !.at = "purge",
                               !.items = kept,
                               !.attempts = [k \in 1..Len(kept) |-> 0],
                               !.called = [k \in 1..Len(kept) |-> 0],
                               !.calls = [k \in 1..Len(kept) |-> <<>>],
                               !.given = [k \in 1..Len(kept) |-> <<>>]]
    /\ UNCHANGED <<parallel, parallelTasksLimit, cfgVars, envVars, ixVars>>

\* The purge loop stops one description short.
PurgeLoopStopsShort(items) == IF items = <<>> THEN 0 ELSE Len(items) - 1

\* The number of descriptions the purge loop of ForEachDeleteStage ranges over:
\* all that the filter left.
PurgeLoopRange(items) == Len(items)

\* ForEachDeleteStage: StagesStorageCache.DeleteStagesByDigest of the next
\* description's digest, with no lock; a failure ends the operation. After the
\* last one DoTasks begins.
FePurge(fails) ==
    /\ doTasks # None
    /\ doTasks.at = "purge"
    /\ IF doTasks.purged = PurgeLoopRange(doTasks.items)
       THEN /\ doTasks' = [doTasks EXCEPT !.at = "tasks"]
            /\ UNCHANGED index
       ELSE IF fails
       THEN /\ doTasks' = [doTasks EXCEPT !.at = "returned", !.err = "error"]
            /\ UNCHANGED index
       ELSE /\ doTasks' = [doTasks EXCEPT !.purged = @ + 1]
            /\ index' = [index EXCEPT
                            ![doTasks.items[doTasks.purged + 1].Digest] =
                                [found |-> FALSE, ids |-> <<>>]]
    /\ UNCHANGED <<parallel, parallelTasksLimit, cfgVars, envVars, cacheLock,
                   lastOk, storedUnlocked>>

\* parallel.DoTasks: a free worker takes the next item and invokes the task
\* function on it; nothing is dispatched after an error or a cancellation.
DoTasksDispatch ==
    /\ doTasks # None
    /\ doTasks.at = "tasks"
    /\ doTasks.err = "" /\ ~doTasks.cancelled
    /\ doTasks.next <= Len(doTasks.items)
    /\ Cardinality(doTasks.running) < doTasks.workers
    /\ doTasks' = [doTasks EXCEPT
                      !.running = @ \cup {doTasks.next},
                      !.attempts[doTasks.next] = @ + 1,
                      !.next = @ + 1]
    /\ UNCHANGED <<parallel, parallelTasksLimit, cfgVars, envVars, ixVars>>

\* The task function gives up at the first cache storage whose call fails.
StopsAtFailedCache(name, cacheFails, deleteFails) ==
    LET target == IF name = "ForEachDeleteFinalStage" THEN FinalStagesStorage
                  ELSE StagesStorage
        caches == IF name = "ForEachDeleteStage"
                  THEN [n \in 1..Len(CacheStagesStorageList) |->
                           [address |-> CacheStagesStorageList[n],
                            failed |-> n \in cacheFails]]
                  ELSE <<>>
        firstFailed == {n \in 1..Len(caches) :
                           /\ caches[n].failed
                           /\ \A i \in 1..(n - 1) : ~caches[i].failed}
    IN  IF firstFailed = {}
        THEN caches \o <<[address |-> target, failed |-> deleteFails]>>
        ELSE SubSeq(caches, 1, CHOOSE n \in firstFailed : TRUE)

\* The storage calls the task function of an operation makes for an item, in
\* order, each with its address and whether it fails: ForEachDeleteStage calls
\* DeleteStage on every cache storage, a failure being a warning, then on the
\* primary storage; ForEachDeleteFinalStage calls it on the final storage; the
\* other operations make their one call on the primary storage. cacheFails are
\* the positions of the cache storages whose call fails.
TaskStorageCalls(name, cacheFails, deleteFails) ==
    LET target == IF name = "ForEachDeleteFinalStage" THEN FinalStagesStorage
                  ELSE StagesStorage
        caches == IF name = "ForEachDeleteStage"
                  THEN [n \in 1..Len(CacheStagesStorageList) |->
                           [address |-> CacheStagesStorageList[n],
                            failed |-> n \in cacheFails]]
                  ELSE <<>>
    IN  caches \o <<[address |-> target, failed |-> deleteFails]>>

\* The storage after the task function of a stage operation ran on a stage:
\* the stage is gone from every storage whose DeleteStage succeeded.
StorageAfterDelete(name, stageID, cacheFails, deleteFails) ==
    LET calls == TaskStorageCalls(name, cacheFails, deleteFails)
        gone == {calls[n].address : n \in {i \in 1..Len(calls) : ~calls[i].failed}}
    IN  [address \in DOMAIN storage |->
            IF address \in gone
            THEN [storage[address] EXCEPT ![stageID] = "absent"]
            ELSE storage[address]]

\* The error the task function hands to the callback f: that of its last
\* storage call, the one on the primary or the final storage.
ErrorGivenToCallback(calls) == calls[Len(calls)].failed

\* An invocation of the task function ends: the storage call of the item is
\* made, its result is handed to the callback f, and what f returns is the
\* task's error; the first error of a task becomes the error of DoTasks.
TaskEnd(k, cacheFails, deleteFails, callbackErr) ==
    /\ doTasks # None
    /\ k \in doTasks.running
    /\ storage' = IF doTasks.name \in ForEachStageOperations
                  THEN StorageAfterDelete(doTasks.name, doTasks.items[k],
                                          cacheFails, deleteFails)
                  ELSE storage
    /\ doTasks' = [doTasks EXCEPT
                      !.running = @ \ {k},
                      !.called[k] = @ + 1,
                      !.calls[k] = @ \o TaskStorageCalls(doTasks.name, cacheFails,
                                                         deleteFails),
                      !.given[k] = Append(@, ErrorGivenToCallback(
                                       TaskStorageCalls(doTasks.name, cacheFails,
                                                        deleteFails))),
                      !.failed = IF callbackErr THEN @ \cup {k} ELSE @,
                      !.err = IF @ = "" /\ callbackErr THEN "error" ELSE @]
    /\ UNCHANGED <<parallel, parallelTasksLimit, cfgVars, rejected, manifestCache,
                   ixVars>>

\* The caller's context is cancelled while DoTasks runs.
DoTasksCancel ==
    /\ doTasks # None
    /\ doTasks.at = "tasks"
    /\ ~doTasks.cancelled
    /\ doTasks' = [doTasks EXCEPT !.cancelled = TRUE]
    /\ UNCHANGED <<parallel, parallelTasksLimit, cfgVars, envVars, ixVars>>

\* parallel.DoTasks returns, and the operation with it: no invocation runs and
\* nothing is left to dispatch.
DoTasksReturn ==
    /\ doTasks # None
    /\ doTasks.at = "tasks"
    /\ doTasks.running = {}
    /\ \/ doTasks.next > Len(doTasks.items)
       \/ doTasks.err # ""
       \/ doTasks.cancelled
    /\ doTasks' = [doTasks EXCEPT
                      !.at = "returned",
                      !.err = IF @ = "" /\ doTasks.cancelled
                                 /\ doTasks.next <= Len(doTasks.items)
                              THEN "cancelled" ELSE @]
    /\ UNCHANGED <<parallel, parallelTasksLimit, cfgVars, envVars, ixVars>>


\* An index that holds every stage of every digest.
FullIndex == [digest \in Digests |-> [found |-> TRUE, ids |-> IDsOfDigest(digest)]]

FeRest == RbIdle /\ RsIdle /\ ProcIdle /\ HostIdle /\ FinIdle /\ FnIdle

FeFrame == UNCHANGED <<rbVars, rsVars, procVars, hostVars, finVars, fnVars>>

ForEachInit ==
    /\ parallel = FALSE
    /\ parallelTasksLimit = 0
    /\ doTasks = None
    /\ StagesStorage \in {PrimaryRepo, LocalStorageAddress}
    /\ CacheStagesStorageList = <<CacheRepos[1]>>
    /\ storage = [address \in {StagesStorage, CacheRepos[1], FinalRepo} |->
                     [id \in StageIDs |-> "ok"]]
    /\ rejected = {}
    /\ manifestCache = {}
    /\ index \in {EmptyIndex, FullIndex}
    /\ cacheLock = NoLocks
    /\ lastOk = [digest \in Digests |-> 0]
    /\ storedUnlocked = FALSE
    /\ FeRest

ForEachNext ==
    \/ \E limit \in -1..MaxTasksLimit : EnableParallel(limit) /\ FeFrame
    \/ \E name \in ForEachOperations, n \in 0..MaxItems :
          ForEachCall(name, n) /\ FeFrame
    \/ \E fails, drops \in BOOLEAN : FeFilter(fails, drops) /\ FeFrame
    \/ \E fails \in BOOLEAN : FePurge(fails) /\ FeFrame
    \/ DoTasksDispatch /\ FeFrame
    \/ \E k \in 1..MaxItems, cacheFails \in SUBSET (1..Len(CacheStagesStorageList)),
          deleteFails, callbackErr \in BOOLEAN :
          TaskEnd(k, cacheFails, deleteFails, callbackErr) /\ FeFrame
    \/ DoTasksCancel /\ FeFrame
    \/ DoTasksReturn /\ FeFrame

SpecForEach == ForEachInit /\ [][ForEachNext]_vars

\* C9: in a for-each operation no more than MaxNumberOfWorkers() invocations of
\* the task function run at any instant, no item is attempted twice, and when
\* the operation returns without an error every item has been attempted, and
\* its callback called, exactly once.
C9_BoundedOverlapEachItemOnce ==
    doTasks # None =>
        /\ Cardinality(doTasks.running)
              <= MaxNumberOfWorkers(parallel, parallelTasksLimit)
        /\ \A k \in 1..Len(doTasks.items) :
              /\ doTasks.attempts[k] <= 1
              /\ doTasks.called[k] <= doTasks.attempts[k]
        /\ (doTasks.at = "returned" /\ doTasks.err = "")
              => \A k \in 1..Len(doTasks.items) :
                    doTasks.attempts[k] = 1 /\ doTasks.called[k] = 1

\* With two workers allowed, two invocations run, one item has been done and
\* another waits for a worker.
C9_Witness ==
    /\ doTasks # None
    /\ MaxNumberOfWorkers(parallel, parallelTasksLimit) = 2
    /\ Cardinality(doTasks.running) = 2
    /\ doTasks.next <= Len(doTasks.items)
    /\ \E k \in 1..Len(doTasks.items) : doTasks.called[k] = 1

-----------------------------------------------------------------------------
(* One FetchStage call followed step by step: the storages it contacts and  *)
(* the order it contacts them in.                                           *)

\* The caller of the call that is followed.
PathCallers == {1}

\* The stage it fetches.
PathStage == [Digest |-> "a", UniqueID |-> 1]

\* The storages a manager with two cache storages works with.
PathAddresses == {PrimaryRepo, CacheRepos[1], CacheRepos[2]}

\* The stage is stored, absent or broken in each of them.
PathStorages ==
    {[address \in PathAddresses |->
         [id \in StageIDs |-> IF id = PathStage THEN state[address] ELSE "absent"]] :
        state \in [PathAddresses -> {"ok", "absent", "broken"}]}

\* The images of the stage that may be local before the call.
PathLocalBefore ==
    {ConstructStageImageName(address, PathStage) : address \in PathAddresses}

\* The manifest cache before the call: empty, or with the entry an earlier
\* resolution of the stage against the primary storage left.
PathManifestCaches ==
    {{}, ManifestStoreImageInfo({}, PrimaryRepo,
                                StorageStageDescription(PrimaryRepo, PathStage).Info)}

\* The configured lists of cache storages, in both orders.
PathCacheLists ==
    {<<CacheRepos[1], CacheRepos[2]>>, <<CacheRepos[2], CacheRepos[1]>>}

PathInit ==
    /\ pc = [p \in PathCallers |-> "fs_start"]
    /\ op = [p \in PathCallers |-> [name |-> "FetchStage", stage |-> PathStage]]
    /\ loc = [p \in PathCallers |-> FetchLocals]
    /\ ret = [p \in PathCallers |-> Running]
    /\ StagesStorage = PrimaryRepo
    /\ CacheStagesStorageList \in PathCacheLists
    /\ storage \in PathStorages
    /\ rejected = {}
    /\ manifestCache \in PathManifestCaches
    /\ hostLock = NoHostLocks
    /\ SharedHostImagesLocks = <<>>
    /\ localImages \in SUBSET PathLocalBefore
    /\ lruImages = {}
    /\ FsRest

PathNext ==
    \/ \E p \in PathCallers : FsPrimarySteps(p, EveryFetchFailure) /\ FsFrame
    \/ \E p \in PathCallers : FsCacheSteps(p, EveryFetchFailure) /\ FsFrame
    \/ \E p \in PathCallers : FsReturn(p) /\ FsFrame

SpecFetchPath == PathInit /\ [][PathNext]_vars

\* The calls a FetchStage made on a cache storage of the list.
CacheCalls(p) ==
    {k \in 1..Len(loc[p].calls) :
        \E i \in 1..Len(CacheStagesStorageList) :
            loc[p].calls[k][2] = CacheStagesStorageList[i]}

\* The positions of the calls of one function on one storage.
CallsOf(p, fn, address) ==
    {k \in 1..Len(loc[p].calls) : loc[p].calls[k] = <<fn, address>>}

PrimaryManifestEntry(p) ==
    ManifestGetImageInfo(manifestCache, StagesStorage,
                         ConstructStageImageName(StagesStorage, op[p].stage)) # Nil

\* C12 as claimed: after FetchStage returns success on the primary-hit path the
\* manifest cache contains an entry for the primary storage's address and the
\* stage's image name there.
C12_ManifestEntryAfterPrimaryHit ==
    \A p \in PathCallers :
        (pc[p] = "done" /\ ~loc[p].shouldFetch /\ ret[p].err = "")
            => PrimaryManifestEntry(p)

\* C12 as the code has it: no step of a FetchStage on the primary-hit path
\* writes the manifest cache; the steps up to the primary storage's answer and
\* every step after the answer "already local" leave the cache as it was, so
\* the entry is there after the call exactly when it was there before.
C12_PrimaryHitLeavesManifestCache ==
    [][\A p \in PathCallers :
          (pc[p] \in {"fs_start", "fs_register", "fs_should"}
              \/ ~loc'[p].shouldFetch)
          => manifestCache' = manifestCache]_vars

\* A FetchStage returned success on the primary-hit path and the manifest cache
\* holds no entry for the stage.
C12_Witness ==
    \E p \in PathCallers :
        /\ pc[p] = "done"
        /\ ~loc[p].shouldFetch
        /\ ret[p].err = ""
        /\ ~PrimaryManifestEntry(p)

\* A ShouldFetchImage asked of a cache storage: the first call of a probe.
IsCacheProbe(call) == call[1] = "ShouldFetchImage" /\ call[2] # StagesStorage

\* The cache storages a FetchStage probed, in the order it probed them.
ProbeOrder(p) == SelectSeq(loc[p].calls, IsCacheProbe)

\* The position of a cache storage in the configured list, 0 for the primary.
ListIndex(address) ==
    IF \E i \in 1..Len(CacheStagesStorageList) : CacheStagesStorageList[i] = address
    THEN CHOOSE i \in 1..Len(CacheStagesStorageList) :
             CacheStagesStorageList[i] = address
    ELSE 0

\* C13: when the primary storage needs a fetch, the cache storages are probed
\* one at a time in the order of the configured list (the k-th probe is of the
\* k-th storage, and a probe's GetStageDescription and FetchImage follow its
\* own ShouldFetchImage before the next probe begins); once a cache storage's
\* image is obtained and prepared as primary no later storage of the list is
\* contacted at all and the primary storage is asked neither for the
\* description nor for the image; when the first storage is the hit the refill
\* list is empty and no cache storage gets a StoreImage.
C13_FirstCacheHitWins ==
    \A p \in PathCallers :
        LET calls == loc[p].calls
            hit == ListIndex(loc[p].fetched)
        IN  /\ \A k \in 1..Len(ProbeOrder(p)) :
                  ProbeOrder(p)[k][2] = CacheStagesStorageList[k]
            /\ \A k \in 1..Len(calls) :
                  (calls[k][1] \in {"GetStageDescription", "FetchImage"}
                      /\ calls[k][2] # StagesStorage)
                  => /\ Len(ProbeOrder(p)) = ListIndex(calls[k][2])
                        \/ \E n \in (k + 1)..Len(calls) :
                              calls[n] = <<"ShouldFetchImage",
                                  CacheStagesStorageList[ListIndex(calls[k][2]) + 1]>>
                     /\ \E n \in 1..(k - 1) :
                           calls[n] = <<"ShouldFetchImage", calls[k][2]>>
            /\ hit > 0 =>
                  /\ loc[p].shouldFetch
                  /\ \A k \in 1..Len(calls) : ListIndex(calls[k][2]) <= hit
                  /\ CallsOf(p, "FetchImage", StagesStorage) = {}
                  /\ CallsOf(p, "GetStageDescription", StagesStorage) = {}
                  /\ pc[p] \notin {"fs_probe", "fs_primary", "fs_primary_pull"}
            /\ hit = 1 =>
                  /\ loc[p].refill = <<>>
                  /\ \A i \in 1..Len(CacheStagesStorageList) :
                        CallsOf(p, "StoreImage", CacheStagesStorageList[i]) = {}

\* A FetchStage returned success with the image of the first cache storage
\* promoted, while the second cache storage and the primary hold the stage too.
C13_Witness ==
    \E p \in PathCallers :
        /\ pc[p] = "done"
        /\ ret[p].err = ""
        /\ loc[p].fetched = CacheStagesStorageList[1]
        /\ storage[CacheStagesStorageList[2]][PathStage] = "ok"
        /\ storage[StagesStorage][PathStage] = "ok"
        /\ CallsOf(p, "FetchImage", CacheStagesStorageList[1]) # {}

\* The position in the call log at which the image was obtained: the last call
\* on the primary storage (its FetchImage, or the last step of the preparation
\* of a cache storage's image as primary); 0 while no image is obtained.
FetchedAt(p) ==
    IF loc[p].fetched = "" THEN 0
    ELSE CHOOSE k \in 1..Len(loc[p].calls) :
             /\ loc[p].calls[k][2] = StagesStorage
             /\ \A n \in (k + 1)..Len(loc[p].calls) :
                   loc[p].calls[n][2] # StagesStorage

\* The cache storages a FetchStage probed without obtaining the image from
\* them.
ProbedAndFailed(p) ==
    {tier \in {CacheStagesStorageList[i] : i \in 1..Len(CacheStagesStorageList)} :
        /\ CallsOf(p, "ShouldFetchImage", tier) # {}
        /\ tier # loc[p].fetched}

\* C14: a cache storage is written by FetchStage (RenameImage to its name, then
\* StoreImage) only as a refill: only if it was probed and failed, only after
\* the image was obtained from a later cache storage or from the primary, at
\* most once, the StoreImage after the RenameImage, and in the order of the
\* probes; when FetchStage returns success after a fetch every cache storage
\* that was probed and failed has had exactly one copy attempt, and the storages
\* never probed, like the one the image came from, none.
C14_RefillAfterFetchInProbeOrder ==
    \A p \in PathCallers :
        LET renames(tier) == CallsOf(p, "RenameImage", tier)
            stores(tier) == CallsOf(p, "StoreImage", tier)
            tiers == {CacheStagesStorageList[i] :
                         i \in 1..Len(CacheStagesStorageList)}
        IN  /\ \A tier \in tiers :
                  /\ Cardinality(renames(tier)) <= 1
                  /\ Cardinality(stores(tier)) <= 1
                  /\ \A s \in stores(tier) : \E r \in renames(tier) : s = r + 1
                  /\ renames(tier) # {} =>
                        /\ tier \in ProbedAndFailed(p)
                        /\ loc[p].fetched # ""
                        /\ \A r \in renames(tier) : r > FetchedAt(p)
            /\ \A t1, t2 \in tiers :
                  (ListIndex(t1) < ListIndex(t2)) =>
                      \A r1 \in renames(t1), r2 \in renames(t2) : r1 < r2
            /\ (pc[p] = "done" /\ ret[p].err = "" /\ loc[p].shouldFetch) =>
                  /\ loc[p].fetched # ""
                  /\ \A tier \in tiers :
                        Cardinality(renames(tier)) =
                            IF tier \in ProbedAndFailed(p) THEN 1 ELSE 0

\* A FetchStage returned success: the first cache storage had been probed and
\* had not given the image, the second gave it, and the first now holds the
\* stage copied from the local image.
C14_Witness ==
    \E p \in PathCallers :
        /\ pc[p] = "done"
        /\ ret[p].err = ""
        /\ loc[p].fetched = CacheStagesStorageList[2]
        /\ CallsOf(p, "GetStageDescription", CacheStagesStorageList[1]) # {}
        /\ CallsOf(p, "StoreImage", CacheStagesStorageList[1]) # {}
        /\ storage[CacheStagesStorageList[1]][PathStage] = "ok"

-----------------------------------------------------------------------------
(* The resolver on a broken image.                                          *)

\* C15: when the target storage's GetStageDescription returns
\* storage.ErrBrokenImage, a resolution with AllowStagesStorageCacheReset calls
\* the target's RejectStage for the stage exactly once and returns
\* ErrShouldResetStagesStorageCache, the stage then being rejected in the
\* target, or returns an error when RejectStage fails; without the option it
\* returns absent with no error and calls RejectStage not at all. No other
\* resolution calls RejectStage.
C15_BrokenTargetRejectedOnce ==
    rsCall # None =>
        /\ (rsResult.broken /\ rsCall.opts.AllowStagesStorageCacheReset) =>
              /\ rsResult.rejectCalls = 1
              /\ rsResult.kind = IF rsCall.rejectFails THEN "error" ELSE "reset"
              /\ ~rsCall.rejectFails =>
                    /\ <<rsTarget, rsCall.stageID>> \in rejected
                    /\ <<rsTarget, rsCall.stageID>> \in mgrRejected
        /\ (rsResult.broken /\ ~rsCall.opts.AllowStagesStorageCacheReset) =>
              /\ rsResult.rejectCalls = 0
              /\ rsResult.kind = "absent"
        /\ ~rsResult.broken => rsResult.rejectCalls = 0

\* A resolution with the option met a broken image in the target, rejected the
\* stage once and returned ErrShouldResetStagesStorageCache.
C15_Witness ==
    /\ rsCall # None
    /\ rsResult.broken
    /\ rsCall.opts.AllowStagesStorageCacheReset
    /\ rsResult.rejectCalls = 1
    /\ rsResult.kind = "reset"
    /\ <<rsTarget, rsCall.stageID>> \in rejected

\* C16 as claimed: a resolution in which no call fails returns the same kind
\* of outcome (description, absent, ErrShouldResetStagesStorageCache or error),
\* and for a description the same stage, as the same resolution against the
\* same storages with an empty manifest cache, whatever the earlier resolutions
\* have left in the manifest cache.
C16_SameOutcomeWithEmptyManifestCache ==
    (rsCall # None /\ ~rsCall.faulty) =>
        /\ rsResult.kind = rsResult.emptyKind
        /\ rsResult.kind = "desc" => rsResult.id = rsResult.emptyID

-----------------------------------------------------------------------------
(* The LRU images cache.                                                    *)

\* C17 as claimed, for the FetchStage calls in which AccessImage is the only
\* call that failed (the primary storage answered that the image is local, so
\* the lock and ShouldFetchImage succeeded and the LRU access is the last
\* call): a failure of AccessImage does not make FetchStage return an error.
C17_LruFailureNeverFailsFetchStage ==
    \A p \in PathCallers :
        (pc[p] = "done" /\ ~loc[p].shouldFetch /\ loc[p].lruErr)
            => ret[p].err = ""

-----------------------------------------------------------------------------
(* GenerateStageUniqueID.                                                   *)

\* The largest Unix time, in seconds, the clock shows.
MaxUnixSeconds == 1

\* timeNow.Unix()*1000
MillisPerSecond == 1000

\* timeNow.Nanosecond()/1000000
NanosPerMilli == 1000000

\* time.Now().UTC(): the seconds since the epoch and the nanoseconds within
\* the second, at both ends of a millisecond and of the second.
Clocks == [sec : 0..MaxUnixSeconds, nsec : {0, 999999, 1000000, 999999999}]

\* uniqueID := timeNow.Unix()*1000 + int64(timeNow.Nanosecond()/1000000)
UniqueIDOfClock(timeNow) ==
    timeNow.sec * MillisPerSecond + (timeNow.nsec \div NanosPerMilli)

\* The longest list of candidate stages.
MaxCandidates == 2

\* The candidates: stages of the primary storage built in the first two
\* milliseconds of a second.
CandidateStages ==
    {StorageStageDescription(PrimaryRepo, [Digest |-> digest, UniqueID |-> uniqueID]) :
        digest \in Digests,
        uniqueID \in {sec * MillisPerSecond + ms : sec \in 0..MaxUnixSeconds,
                                                    ms \in {0, 1}}}

CandidateLists == UNION {[1..n -> CandidateStages] : n \in 0..MaxCandidates}

FnRest == RbIdle /\ EnvIdle /\ RsIdle /\ ProcIdle /\ IxIdle /\ HostIdle
          /\ FinIdle /\ FeIdle

FnFrame == UNCHANGED <<rbVars, cfgVars, envVars, rsVars, procVars, ixVars,
                       hostVars, finVars, feVars>>

\* A call GenerateStageUniqueID(digest, stages) at some reading of the clock.
UniqueIDInit ==
    /\ StagesStorage = PrimaryRepo
    /\ CacheStagesStorageList = <<>>
    /\ fnCall \in [digest : Digests, stages : CandidateLists, timeNow : Clocks]
    /\ fnValue = [pc |-> "now", k |-> 1, uniqueID |-> 0, imageName |-> <<>>]
    /\ FnRest

\* The outer loop begins: the clock is read, the unique ID and the image name
\* in the primary storage are computed.
UidNow ==
    LET uniqueID == UniqueIDOfClock(fnCall.timeNow)
    IN  /\ fnValue.pc = "now"
        /\ fnValue' = [pc |-> "scan", k |-> 1, uniqueID |-> uniqueID,
                       imageName |->
                           ConstructStageImageName(StagesStorage,
                               [Digest |-> fnCall.digest, UniqueID |-> uniqueID])]
        /\ UNCHANGED fnCall

\* The inner loop compares the name of candidate k; on a match its continue
\* goes on to the next candidate, like a mismatch does.
UidScan ==
    /\ fnValue.pc = "scan"
    /\ fnValue.k <= Len(fnCall.stages)
    /\ fnValue' =
          IF fnCall.stages[fnValue.k].Info.Name = fnValue.imageName
          THEN [fnValue EXCEPT !.k = @ + 1]
          ELSE [fnValue EXCEPT !.k = @ + 1]
    /\ UNCHANGED fnCall

\* The inner loop is over: return imageName, uniqueID.
UidReturn ==
    /\ fnValue.pc = "scan"
    /\ fnValue.k > Len(fnCall.stages)
    /\ fnValue' = [fnValue EXCEPT !.pc = "returned"]
    /\ UNCHANGED fnCall

UniqueIDNext ==
    \/ UidNow /\ FnFrame
    \/ UidScan /\ FnFrame
    \/ UidReturn /\ FnFrame

SpecUniqueID == UniqueIDInit /\ [][UniqueIDNext]_vars

\* C18 as claimed: the image name GenerateStageUniqueID returns differs from
\* Info.Name of every candidate, whatever the clock and the candidates.
C18_ReturnedNameNotAmongCandidates ==
    fnValue.pc = "returned" =>
        \A k \in 1..Len(fnCall.stages) :
            fnCall.stages[k].Info.Name # fnValue.imageName

-----------------------------------------------------------------------------
(* MaxNumberOfWorkers.                                                      *)

\* C19: in every configuration MaxNumberOfWorkers() is at least 1: it is
\* parallelTasksLimit when EnableParallel was called with a limit greater than
\* 0, and 1 when EnableParallel was never called or was called with a limit of
\* 0 or less; a for-each operation under way was given that number of workers.
C19_AtLeastOneWorker ==
    LET workers == MaxNumberOfWorkers(parallel, parallelTasksLimit)
    IN  /\ workers >= 1
        /\ (parallel /\ parallelTasksLimit > 0) => workers = parallelTasksLimit
        /\ (~parallel \/ parallelTasksLimit <= 0) => workers = 1
        /\ ~parallel => parallelTasksLimit = 0
        /\ doTasks # None => doTasks.workers = workers

\* EnableParallel was called with a limit of 0 or less and a for-each
\* operation runs with one worker.
C19_Witness ==
    /\ parallel
    /\ parallelTasksLimit <= 0
    /\ doTasks # None
    /\ doTasks.workers = 1
    /\ doTasks.running # {}

-----------------------------------------------------------------------------
(* Errors on their way up to the caller of a public operation. An error is   *)
(* its message, a sequence of pieces of text; the nil error is the empty     *)
(* sequence.                                                                *)

NoError == <<>>

\* errors.New("should reset storage cache")
ErrShouldResetStagesStorageCache == <<"should reset storage cache">>

\* The error of a storage, of the runtime or of a lock.
BackendError == <<"backend failure">>

\* The format verbs are filled and the error comes first in the message.
ErrorfErrorFirst(prefix, err) == err \o prefix

\* fmt.Errorf("<prefix>: %s", err): the message of err after the prefix.
Errorf(prefix, err) == prefix \o err

\* strings.HasSuffix(s, suffix)
HasSuffix(s, suffix) ==
    /\ Len(s) >= Len(suffix)
    /\ SubSeq(s, Len(s) - Len(suffix) + 1, Len(s)) = suffix

\* ShouldResetStagesStorageCache(err)
ShouldResetStagesStorageCache(err) ==
    IF err # NoError
    THEN HasSuffix(err, ErrShouldResetStagesStorageCache)
    ELSE FALSE

\* stageID.String()
StageIDString(stageID) == <<stageID.Digest, "-", ToString(stageID.UniqueID)>>

\* stg.GetImage().Name(), as text.
ImageNameString(address, stageID) == <<address, ":">> \o StageIDString(stageID)

\* stg.LogDetailedName()
LogDetailedName(stageID) == <<"stage/", stageID.Digest>>

\* parallel.DoTasks hands the error of the task function back to its caller.
DoTasksError(err) == err

\* The public operations that call getStageDescription with
\* AllowStagesStorageCacheReset, and those that call FetchStage.
ResolverOperations ==
    {"GetStagesByDigest", "GetStageDescriptionList",
     "GetFinalStageDescriptionList", "CopySuitableByDigestStage"}

FetchOperations == {"FetchStage", "CopyStageIntoFinalRepo"}

\* What getStageDescription returns when it returns an error: "absent" and
\* "rejected" are ErrShouldResetStagesStorageCache itself, for a stage the
\* target has no longer and for a broken one it rejected; the error of
\* RejectStage and the error of the target's GetStageDescription are wrapped.
ResolverError(stageID, address, origin) ==
    CASE origin = "absent" -> ErrShouldResetStagesStorageCache
      [] origin = "rejected" -> ErrShouldResetStagesStorageCache
      [] origin = "reject failed" ->
            Errorf(<<"unable to reject stage ">> \o StageIDString(stageID)
                       \o <<" image ">> \o ImageNameString(address, stageID)
                       \o <<" in the stages storage ", address, ": ">>,
                   BackendError)
      [] origin = "target failed" ->
            Errorf(<<"error getting digest ", stageID.Digest, " uniqueID ",
                     ToString(stageID.UniqueID), " stage info from ", address, ": ">>,
                   BackendError)

ResolverOrigins == {"absent", "rejected", "reject failed", "target failed"}

\* What FetchStage returns when it returns an error: "absent" is
\* ErrShouldResetStagesStorageCache itself, for a stage the primary storage has
\* no longer; the error of the lock and the error of doFetchStage are wrapped.
FetchStageError(stageID, address, origin) ==
    CASE origin = "absent" -> ErrShouldResetStagesStorageCache
      [] origin = "lock failed" ->
            Errorf(<<"error locking stage image ">>
                       \o ImageNameString(address, stageID) \o <<": ">>,
                   BackendError)
      [] origin = "fetch failed" ->
            Errorf(<<"unable to fetch stage ">> \o StageIDString(stageID)
                       \o <<" from stages storage ", address, ": ">>,
                   Errorf(<<"unable to get stage description: ">>, BackendError))

FetchStageOrigins == {"absent", "lock failed", "fetch failed"}

\* The origins that are ErrShouldResetStagesStorageCache produced by the
\* resolver or by the fetch pipeline.
ResetOrigins == {"absent", "rejected"}

\* The prefixes of the fmt.Errorf calls an error returned by getStageDescription
\* or by FetchStage goes through before the operation returns it, innermost
\* first: getStagesByDigestFromCache then GetStagesByDigest; the task function
\* of GetStageDescriptionList and of GetFinalStageDescriptionList, whose error
\* DoTasks and the operation return as it is; CopySuitableByDigestStage;
\* none in FetchStage itself; CopyStageIntoFinalRepo.
GetStagesByDigestFrames(stageID) ==
    << <<"unable to get stage ">> \o StageIDString(stageID) \o <<" description: ">>,
       <<"unable to get ", "stage", " stages by digest ", stageID.Digest,
         " from cache: ">> >>

GetStageDescriptionListFrames(stageID) ==
    << <<"error getting stage ">> \o StageIDString(stageID) \o <<" description: ">> >>

GetFinalStageDescriptionListFrames(stageID) ==
    << <<"error getting stage ">> \o StageIDString(stageID)
           \o <<" description from ", FinalStagesStorage, ": ">> >>

CopySuitableByDigestStageFrames(stageID) ==
    << <<"unable to get stage ">> \o StageIDString(stageID)
           \o <<" description from ", FinalStagesStorage, ": ">> >>

FetchStageFrames(stageID) == << >>

CopyStageIntoFinalRepoFrames(stageID) ==
    << <<"unable to fetch stage ">> \o LogDetailedName(stageID) \o <<": ">> >>

WrapFrames(name, stageID) ==
    CASE name = "GetStagesByDigest" -> GetStagesByDigestFrames(stageID)
      [] name = "GetStageDescriptionList" -> GetStageDescriptionListFrames(stageID)
      [] name = "GetFinalStageDescriptionList" ->
            GetFinalStageDescriptionListFrames(stageID)
      [] name = "CopySuitableByDigestStage" -> CopySuitableByDigestStageFrames(stageID)
      [] name = "FetchStage" -> FetchStageFrames(stageID)
      [] name = "CopyStageIntoFinalRepo" -> CopyStageIntoFinalRepoFrames(stageID)

\* The storage the operation resolves against or fetches from; the final
\* storage stands for the destination of CopySuitableByDigestStage.
TargetOf(name) ==
    IF name = "GetFinalStageDescriptionList" THEN FinalStagesStorage
    ELSE IF name = "CopySuitableByDigestStage" THEN FinalStagesStorage
    ELSE PrimaryRepo

ErrorCalls ==
    [name : ResolverOperations, stageID : StageIDs, origin : ResolverOrigins]
        \cup [name : FetchOperations, stageID : StageIDs, origin : FetchStageOrigins]

\* A public operation is under way on a stage and the resolver or FetchStage
\* inside it is about to fail.
ErrorsInit ==
    /\ StagesStorage = PrimaryRepo
    /\ CacheStagesStorageList = <<>>
    /\ fnCall \in ErrorCalls
    /\ fnValue = [pc |-> "called", level |-> 0, err |-> NoError]
    /\ FnRest

\* getStageDescription or FetchStage returns its error.
ErrRaise ==
    /\ fnValue.pc = "called"
    /\ fnValue' =
          [pc |-> "raised", level |-> 0,
           err |-> IF fnCall.name \in ResolverOperations
                   THEN ResolverError(fnCall.stageID, TargetOf(fnCall.name),
                                      fnCall.origin)
                   ELSE FetchStageError(fnCall.stageID, TargetOf(fnCall.name),
                                        fnCall.origin)]
    /\ UNCHANGED fnCall

\* The next function up wraps the error with fmt.Errorf.
ErrWrap ==
    /\ fnValue.pc = "raised"
    /\ fnValue.level < Len(WrapFrames(fnCall.name, fnCall.stageID))
    /\ fnValue' =
          [fnValue EXCEPT
              !.level = @ + 1,
              !.err = Errorf(WrapFrames(fnCall.name, fnCall.stageID)[fnValue.level + 1],
                             fnValue.err)]
    /\ UNCHANGED fnCall

\* The public operation returns the error to its caller; the list operations
\* return what DoTasks returned.
ErrReturn ==
    /\ fnValue.pc = "raised"
    /\ fnValue.level = Len(WrapFrames(fnCall.name, fnCall.stageID))
    /\ fnValue' =
          [fnValue EXCEPT
              !.pc = "returned",
              !.err = IF fnCall.name \in {"GetStageDescriptionList",
                                          "GetFinalStageDescriptionList"}
                      THEN DoTasksError(@) ELSE @]
    /\ UNCHANGED fnCall

ErrorsNext ==
    \/ ErrRaise /\ FnFrame
    \/ ErrWrap /\ FnFrame
    \/ ErrReturn /\ FnFrame

SpecErrors == ErrorsInit /\ [][ErrorsNext]_vars

\* C20: when the resolver or the fetch pipeline produced
\* ErrShouldResetStagesStorageCache inside a public operation, the error is
\* recognised by ShouldResetStagesStorageCache(err) at every function on its
\* way up and as the operation returns it, however many times it was wrapped.
C20_WrappedResetStillRecognised ==
    (fnValue.pc \in {"raised", "returned"} /\ fnCall.origin \in ResetOrigins)
        => ShouldResetStagesStorageCache(fnValue.err)

\* GetStagesByDigest returned ErrShouldResetStagesStorageCache of the resolver
\* wrapped twice, and the predicate recognises it.
C20_Witness ==
    /\ fnValue.pc = "returned"
    /\ fnCall.name = "GetStagesByDigest"
    /\ fnCall.origin \in ResetOrigins
    /\ fnValue.level = 2
    /\ fnValue.err # ErrShouldResetStagesStorageCache
    /\ ShouldResetStagesStorageCache(fnValue.err)

-----------------------------------------------------------------------------
(* SpecDeleteRace: one ForEachDeleteStage of a stage runs together with     *)
(* GetStagesByDigest and AtomicStoreStagesByDigestToCache calls.            *)

\* The stage that ForEachDeleteStage is given.
DeletedStage == ForEachItems("ForEachDeleteStage", 1)[1]

\* The callers of the index calls that run beside the deletion.
RaceCallers == {1, 2}

\* The calls that run beside the deletion: any GetStagesByDigest, and the stores
\* of one stage other than the deleted one.
RaceCalls(p) ==
    GetCalls(p) \cup {c \in StoreCalls(p) : Len(c.ids) = 1 /\ c.ids[1] # DeletedStage}

\* The storages before the deletion: the primary storage and the cache storage
\* hold every stage, or the image of one stage that is not deleted is broken in
\* the primary storage and the cache storage does not hold it.
RaceStorages ==
    {[address \in {PrimaryRepo, CacheRepos[1]} |->
         [id \in StageIDs |->
             IF id # [Digest |-> DeletedStage.Digest, UniqueID |-> MaxUniqueID]
                \/ ~broken
             THEN "ok"
             ELSE IF address = PrimaryRepo THEN "broken" ELSE "absent"]] :
        broken \in BOOLEAN}

DeleteRaceInit ==
    /\ pc = [p \in RaceCallers |-> "start"]
    /\ op \in [RaceCallers -> UNION {RaceCalls(p) : p \in RaceCallers}]
    /\ \A p \in RaceCallers : op[p] \in RaceCalls(p)
    /\ loc = [p \in RaceCallers |-> NoLocals]
    /\ ret = [p \in RaceCallers |-> Running]
    /\ index \in {EmptyIndex, FullIndex}
    /\ cacheLock = NoLocks
    /\ lastOk = [digest \in Digests |-> 0]
    /\ storedUnlocked = FALSE
    /\ StagesStorage = PrimaryRepo
    /\ CacheStagesStorageList = <<CacheRepos[1]>>
    /\ storage \in RaceStorages
    /\ rejected = {}
    /\ manifestCache = {}
    /\ parallel = FALSE
    /\ parallelTasksLimit = 0
    /\ doTasks = None
    /\ RsIdle /\ RbIdle /\ HostIdle /\ FinIdle /\ FnIdle

\* The frame of a step of the deletion.
DeleteFrame == UNCHANGED <<rbVars, rsVars, procVars, hostVars, finVars, fnVars>>

\* The frame of a step of an index call.
RaceIndexFrame == UNCHANGED <<rbVars, hostVars, finVars, feVars, fnVars>>

DeleteRaceNext ==
    \/ ForEachCall("ForEachDeleteStage", 1) /\ DeleteFrame
    \/ \E fails, drops \in BOOLEAN : FeFilter(fails, drops) /\ DeleteFrame
    \/ \E fails \in BOOLEAN : FePurge(fails) /\ DeleteFrame
    \/ DoTasksDispatch /\ DeleteFrame
    \/ \E cacheFails \in SUBSET (1..Len(CacheStagesStorageList)),
          deleteFails, callbackErr \in BOOLEAN :
          TaskEnd(1, cacheFails, deleteFails, callbackErr) /\ DeleteFrame
    \/ DoTasksReturn /\ DeleteFrame
    \/ \E p \in RaceCallers :
          \/ AsLock(p) /\ UNCHANGED <<cfgVars, envVars, rsVars>> /\ RaceIndexFrame
          \/ AsLockFails(p) /\ UNCHANGED <<cfgVars, envVars, rsVars>> /\ RaceIndexFrame
          \/ \E fails \in BOOLEAN :
                AsStore(p, fails) /\ UNCHANGED <<cfgVars, envVars, rsVars>>
                                  /\ RaceIndexFrame
          \/ AsReturn(p) /\ UNCHANGED <<cfgVars, envVars, rsVars>> /\ RaceIndexFrame
          \/ GsNext(p) /\ RaceIndexFrame

SpecDeleteRace == DeleteRaceInit /\ [][DeleteRaceNext]_vars

\* The stage IDs that the index lists for a digest.
IndexedStages(digest) == {index[digest].ids[n] : n \in 1..Len(index[digest].ids)}

\* C21: once ForEachDeleteStage has returned without an error, having deleted
\* the stage from the primary storage, and every GetStagesByDigest and
\* AtomicStoreStagesByDigestToCache call that ran beside it has returned, the
\* index entry of the stage's digest does not list the stage.
C21_DeletedStageNotIndexed ==
    (/\ \A p \in RaceCallers : pc[p] = "done"
     /\ doTasks # None
     /\ doTasks.at = "returned"
     /\ doTasks.err = ""
     /\ storage[StagesStorage][DeletedStage] = "absent")
        => DeletedStage \notin IndexedStages(DeletedStage.Digest)

-----------------------------------------------------------------------------
(* What a successful FetchStage leaves in the local runtime.                *)

\* C22: whenever FetchStage has returned success, the image of the stage is in
\* the local runtime under its name in the primary storage, so that the primary
\* storage's ShouldFetchImage answers false for it, whether the image was local
\* already, promoted from a cache storage or fetched from the primary storage,
\* with or without refill.
C22_SuccessLeavesPrimaryImageLocal ==
    \A p \in PathCallers :
        (pc[p] = "done" /\ ret[p].err = "") =>
            ~ShouldFetchImage(localImages, StageImageName(op[p].stage))

\* A FetchStage returned success with the image of a cache storage promoted,
\* after another cache storage went to the refill list, while the primary
\* storage does not hold the stage.
C22_Witness ==
    \E p \in PathCallers :
        /\ pc[p] = "done" /\ ret[p].err = ""
        /\ loc[p].shouldFetch
        /\ loc[p].fetched = CacheStagesStorageList[2]
        /\ loc[p].refill = <<CacheStagesStorageList[1]>>
        /\ storage[StagesStorage][op[p].stage] = "absent"
        /\ CallsOf(p, "RenameImage", StagesStorage) # {}

-----------------------------------------------------------------------------
(* The refresh of GetStagesByDigest on an index miss.                      *)

\* The stage IDs of ids whose resolution, by kinds, returned a description.
RECURSIVE ResolvedOf(_, _)
ResolvedOf(ids, kinds) ==
    IF ids = <<>> \/ kinds = <<>> THEN <<>>
    ELSE IF Head(kinds) = "desc"
         THEN <<Head(ids)>> \o ResolvedOf(Tail(ids), Tail(kinds))
         ELSE ResolvedOf(Tail(ids), Tail(kinds))

\* Caller p takes a step of its refresh from the place at.
RefreshStepFrom(p, at) ==
    /\ pc[p] = at
    /\ (pc'[p] # pc[p] \/ loc'[p] # loc[p])

\* C23: the refresh of GetStagesByDigest lists the stage IDs of the digest from
\* the primary storage; it resolves them one by one in list order without ever
\* rejecting a stage, and the stages it has collected are those of the
\* resolutions that returned a description, an absent or broken stage being
\* skipped; it stores into the index exactly the collected stage IDs, in list
\* order, and returns exactly those; when the listing, a resolution or the store
\* failed it returns an error and no list, having stored nothing.
C23_RefreshStoresAndReturnsResolved ==
    [][\A p \in DOMAIN pc :
          /\ (RefreshStepFrom(p, "gs_list") /\ loc'[p].err = "")
                => /\ loc'[p].ids = StorageGetStagesIDsByDigest(
                                        storage, rejected, StagesStorage, op[p].digest)
                   /\ loc'[p].stages = <<>>
          /\ RefreshStepFrom(p, "gs_resolve")
                => /\ rejected' = rejected
                   /\ mgrRejected' = mgrRejected
                   /\ loc'[p].ids = loc[p].ids
          /\ (RefreshStepFrom(p, "gs_resolve") /\ pc'[p] = "gs_resolve")
                => /\ Len(loc'[p].kinds) = loc'[p].i - 1
                   /\ loc'[p].kinds[loc[p].i] \in {"desc", "absent"}
                   /\ loc'[p].stages = ResolvedOf(loc'[p].ids, loc'[p].kinds)
          /\ (RefreshStepFrom(p, "gs_resolve") /\ pc'[p] = "gs_unlock")
                => IF loc'[p].err = ""
                   THEN /\ loc[p].i > Len(loc[p].ids)
                        /\ index'[op[p].digest] = [found |-> TRUE, ids |-> loc[p].stages]
                        /\ loc'[p].stages = ResolvedOf(loc[p].ids, loc[p].kinds)
                   ELSE index' = index
          /\ (RefreshStepFrom(p, "gs_list") /\ loc'[p].err # "")
                => index' = index
          /\ RefreshStepFrom(p, "gs_unlock")
                => ret'[p] = IF loc[p].err = "" THEN Returned("", loc[p].stages)
                             ELSE Returned(loc[p].err, <<>>)
      ]_vars

\* A refresh has returned a list after skipping, among the stage IDs it had
\* listed, one that resolved to absent and one whose image is broken, and the
\* index entry of its digest is the list it returned.
C23_Witness ==
    \E p \in DOMAIN pc :
        /\ pc[p] = "done"
        /\ op[p].name = "GetStagesByDigest"
        /\ ret[p].err = ""
        /\ Len(loc[p].ids) = MaxUniqueID
        /\ loc[p].kinds[1] = "absent"
        /\ loc[p].kinds[MaxUniqueID] = "absent"
        /\ storage[StagesStorage][loc[p].ids[1]] = "absent"
        /\ storage[StagesStorage][loc[p].ids[MaxUniqueID]] = "broken"
        /\ ret[p].stages = ResolvedOf(loc[p].ids, loc[p].kinds)
        /\ index[op[p].digest] = [found |-> TRUE, ids |-> ret[p].stages]
        /\ rejected = {}

-----------------------------------------------------------------------------
(* GetStagesByDigest on an index hit, and the stale index entry.           *)

\* What the resolution of an indexed stage ID returns now when no call fails.
IndexedResolution(stageID) ==
    getStageDescription(storage, manifestCache, rejected, stageID, StagesStorage,
                        CacheStagesStorageList, getStagesByDigestFromCacheOptions,
                        NoFaults)

\* The resolution of the stage ID comes to the primary storage, which holds no
\* description of the stage: neither the manifest cache nor a cache storage
\* answers for it.
ResolvesToAbsent(stageID) ==
    /\ IndexedResolution(stageID).src = "target"
    /\ StorageGetStageDescription(storage, rejected, StagesStorage, stageID, FALSE)
          = Nil

\* C24: a GetStagesByDigest that finds an entry of its digest in the index
\* resolves the indexed stage IDs and never goes on to the refresh, so it lists
\* nothing from the primary storage and writes nothing into the index; when an
\* indexed stage ID resolves to absent in the primary storage the resolution
\* returns ErrShouldResetStagesStorageCache and the call ends there with that
\* error (or with the error of a call that failed), returning no list and
\* leaving the index as it is; and a list that GetStagesByDigest returns holds
\* no nil description.
C24_IndexHitNeverRefreshesAndStaleResets ==
    [][\A p \in DOMAIN pc :
          /\ (RefreshStepFrom(p, "start") /\ op[p].name = "GetStagesByDigest"
                 /\ index[op[p].digest].found)
                => /\ pc'[p] \in {"gs_hit", "done"}
                   /\ index' = index
                   /\ pc'[p] = "gs_hit" => loc'[p].ids = index[op[p].digest].ids
          /\ RefreshStepFrom(p, "gs_hit")
                => /\ pc'[p] \in {"gs_hit", "done"}
                   /\ index' = index
          /\ (RefreshStepFrom(p, "gs_hit") /\ loc[p].i <= Len(loc[p].ids)
                 /\ ResolvesToAbsent(loc[p].ids[loc[p].i]))
                => /\ IndexedResolution(loc[p].ids[loc[p].i]).kind = "reset"
                   /\ loc'[p].kinds[Len(loc'[p].kinds)] \in {"reset", "error"}
                   /\ pc'[p] = "done"
                   /\ ret'[p] = Returned(loc'[p].kinds[Len(loc'[p].kinds)], <<>>)
          /\ (pc'[p] = "done" /\ op[p].name = "GetStagesByDigest")
                => \A n \in 1..Len(ret'[p].stages) : ret'[p].stages[n] # Nil
      ]_vars

\* A GetStagesByDigest read the index entry that lists the stage being deleted,
\* resolved it after its deletion and returned the should-reset error; nothing
\* was rejected.
C24_Witness ==
    \E p \in DOMAIN pc :
        /\ pc[p] = "done"
        /\ op[p].name = "GetStagesByDigest"
        /\ ret[p] = Returned("reset", <<>>)
        /\ loc[p].err = ""
        /\ Len(loc[p].kinds) = loc[p].i
        /\ loc[p].ids[loc[p].i] = DeletedStage
        /\ storage[StagesStorage][DeletedStage] = "absent"
        /\ rejected = {}

-----------------------------------------------------------------------------
(* FetchStage when the fetch from the primary storage fails.               *)

\* The error doFetchStage returned for the primary storage reports a broken
\* image: it is storage.ErrBrokenImage, or wraps it.
RECURSIVE ReportsBrokenImage(_)
ReportsBrokenImage(err) ==
    IF err = ErrBrokenImage THEN TRUE
    ELSE IF "cause" \in DOMAIN err THEN ReportsBrokenImage(err.cause)
    ELSE FALSE

\* C25: when no cache storage gave the image and the fetch from the primary
\* storage fails with stage-not-found or with broken-image, FetchStage returns
\* ErrShouldResetStagesStorageCache, and in the broken-image case it has called
\* the primary storage's RejectStage for the stage before returning.
C25_PrimaryFailureResets ==
    \A p \in PathCallers :
        pc[p] = "done" =>
            /\ IsStageNotFound(loc[p].primaryErr) => ret[p].err = "reset"
            /\ ReportsBrokenImage(loc[p].primaryErr)
                  => /\ ret[p].err = "reset"
                     /\ CallsOf(p, "RejectStage", StagesStorage) # {}

-----------------------------------------------------------------------------
(* FetchStage when prepareCacheStageAsPrimary fails.                       *)

\* C26: when a cache storage gave the image, the step of
\* prepareCacheStageAsPrimary either succeeds, and the image is the fetched
\* one, or fails at its rename, refresh, manifest-cache store or LRU access,
\* and then the cache storage is appended to the refill list and FetchStage
\* goes on to the next cache storage or to the primary storage; FetchStage
\* neither returns there nor crashes.
C26_FailedPreparationRefillsAndContinues ==
    [][\A p \in PathCallers :
          RefreshStepFrom(p, "fs_prepare")
             => \/ /\ loc'[p].fetched = CacheStagesStorageList[loc[p].i]
                   /\ loc'[p].refill = loc[p].refill
                   /\ pc'[p] = RefillPc(loc[p])
                \/ /\ loc'[p].fetched = ""
                   /\ loc'[p].refill =
                         Append(loc[p].refill, CacheStagesStorageList[loc[p].i])
                   /\ loc'[p].i = loc[p].i + 1
                   /\ pc'[p] = ProbePc(loc[p].i + 1)
      ]_vars

-----------------------------------------------------------------------------
(* SpecSecondary: a FetchStage followed step by step, and after its success *)
(* a CopyStageIntoCache of the same stage, under every failure of the cache *)
(* storages.                                                                *)

\* The caller of FetchStage and the caller of CopyStageIntoCache.
FetchCaller == CHOOSE p \in PathCallers : TRUE

CopyCaller == FetchCaller + 1

\* CopyStageIntoCache is called once the stage has been fetched.
CcStart(p) ==
    /\ pc[p] = "cc_wait"
    /\ pc[FetchCaller] = "done"
    /\ ret[FetchCaller].err = ""
    /\ pc' = [pc EXCEPT ![p] =
                 IF Len(CacheStagesStorageList) >= 1 THEN "cc_copy" ELSE "cc_ret"]
    /\ loc' = [loc EXCEPT ![p].desc =
                  StorageStageDescription(StagesStorage, op[p].stage)]
    /\ UNCHANGED <<op, ret, envVars, hostVars>>

\* CopyStageIntoCache: copyStageIntoStagesStorage into cache storage j of
\* m.CacheStagesStorageList: RenameImage to the cache storage's name,
\* StoreImage, the description rebranded to the cache storage into the manifest
\* cache, the LRU access. A failure is a warning and the loop goes on.
CcCopy(p, failAt) ==
    LET tier == CacheStagesStorageList[loc[p].j]
        targetImageName == ConstructStageImageName(tier, op[p].stage)
        renamed == failAt # "rename"
        stored == renamed /\ failAt # "store"
        cached == stored /\ failAt # "manifest"
        accessed == cached /\ failAt # "lru"
        l1 == Called(loc[p], "RenameImage", tier)
        l2 == IF renamed THEN Called(l1, "StoreImage", tier) ELSE l1
        l3 == IF stored THEN Called(l2, "StoreImageInfo", tier) ELSE l2
        l4 == IF cached
              THEN LruAccessed(Called(l3, "AccessImage", tier), failAt = "lru")
              ELSE l3
        l5 == [l4 EXCEPT !.j = @ + 1]
    IN  /\ pc[p] = "cc_copy"
        /\ localImages' = IF renamed THEN localImages \cup {targetImageName}
                          ELSE localImages
        /\ storage' = IF stored
                      THEN [storage EXCEPT ![tier][op[p].stage] = "ok"]
                      ELSE storage
        /\ manifestCache' =
              IF cached
              THEN ManifestStoreImageInfo(manifestCache, tier,
                       convertStageDescriptionForStagesStorage(loc[p].desc, tier).Info)
              ELSE manifestCache
        /\ lruImages' = IF accessed THEN lruImages \cup {targetImageName}
                        ELSE lruImages
        /\ loc' = [loc EXCEPT ![p] = l5]
        /\ pc' = [pc EXCEPT ![p] =
                     IF l5.j <= Len(CacheStagesStorageList) THEN "cc_copy"
                     ELSE "cc_ret"]
        /\ UNCHANGED <<op, ret, rejected, hostLock, SharedHostImagesLocks>>

\* The error of the last copy that failed is returned.
ReturnLastCopyError(l) ==
    IF Len(l.calls) >= 1 /\ l.calls[Len(l.calls)][1] # "AccessImage" THEN "error"
    ELSE IF l.lruErr THEN "error" ELSE ""

\* The error CopyStageIntoCache returns: nil, whatever the copies did.
CopyStageIntoCacheError(l) == ""

\* CopyStageIntoCache returns.
CcReturn(p) ==
    /\ pc[p] = "cc_ret"
    /\ pc' = [pc EXCEPT ![p] = "done"]
    /\ ret' = [ret EXCEPT ![p] = Returned(CopyStageIntoCacheError(loc[p]), <<>>)]
    /\ UNCHANGED <<op, loc, envVars, hostVars>>

SecondaryInit ==
    /\ pc = [p \in {FetchCaller, CopyCaller} |->
                IF p = FetchCaller THEN "fs_start" ELSE "cc_wait"]
    /\ op = [p \in {FetchCaller, CopyCaller} |->
                [name |-> IF p = FetchCaller THEN "FetchStage"
                          ELSE "CopyStageIntoCache",
                 stage |-> PathStage]]
    /\ loc = [p \in {FetchCaller, CopyCaller} |-> FetchLocals]
    /\ ret = [p \in {FetchCaller, CopyCaller} |-> Running]
    /\ StagesStorage = PrimaryRepo
    /\ CacheStagesStorageList \in PathCacheLists
    /\ storage \in PathStorages
    /\ rejected = {}
    /\ manifestCache = {}
    /\ hostLock = NoHostLocks
    /\ SharedHostImagesLocks = <<>>
    /\ localImages \in SUBSET PathLocalBefore
    /\ lruImages = {}
    /\ FsRest

SecondaryNext ==
    \/ FsPrimarySteps(FetchCaller, EveryFetchFailure) /\ FsFrame
    \/ FsCacheSteps(FetchCaller, EveryFetchFailure) /\ FsFrame
    \/ FsReturn(FetchCaller) /\ FsFrame
    \/ CcStart(CopyCaller) /\ FsFrame
    \/ \E failAt \in CopyFailures : CcCopy(CopyCaller, failAt) /\ FsFrame
    \/ CcReturn(CopyCaller) /\ FsFrame

SpecSecondary == SecondaryInit /\ [][SecondaryNext]_vars

\* The cache storages a call made its RenameImage calls on, in call order.
RenamedTo(p) ==
    LET renames == SelectSeq(loc[p].calls,
                             LAMBDA call : call[1] = "RenameImage"
                                              /\ call[2] # StagesStorage)
    IN  [n \in 1..Len(renames) |-> renames[n][2]]

\* C27: the failures of the cache storages are never returned. A FetchStage
\* that obtained the image, from a cache storage or from the primary storage,
\* returns success whatever failed at the cache storages probed before and at
\* the copies into the refill list; and CopyStageIntoCache attempts the copy
\* into every cache storage, in list order, whatever failed at the ones before,
\* and returns success.
C27_CacheFailuresNeverReturned ==
    /\ (pc[FetchCaller] = "done" /\ loc[FetchCaller].fetched # "")
          => ret[FetchCaller].err = ""
    /\ (pc[FetchCaller] \in {"fs_refill", "fs_ret"} /\ loc[FetchCaller].fetched # "")
          => loc[FetchCaller].err = ""
    /\ pc[CopyCaller] = "done"
          => /\ ret[CopyCaller].err = ""
             /\ RenamedTo(CopyCaller) = CacheStagesStorageList

\* FetchStage got the image from the primary storage after both cache storages
\* had failed, its copies into both failed as well, and it returned success;
\* then CopyStageIntoCache attempted both cache storages, failed at both and
\* returned success.
C27_Witness ==
    /\ pc[FetchCaller] = "done" /\ ret[FetchCaller].err = ""
    /\ loc[FetchCaller].fetched = StagesStorage
    /\ loc[FetchCaller].refill = CacheStagesStorageList
    /\ RenamedTo(FetchCaller) = CacheStagesStorageList
    /\ pc[CopyCaller] = "done" /\ ret[CopyCaller].err = ""
    /\ \A n \in 1..Len(CacheStagesStorageList) :
          storage[CacheStagesStorageList[n]][PathStage] # "ok"

-----------------------------------------------------------------------------
(* The order of the steps of ForEachDeleteStage.                            *)

\* No DeleteStage call has been made and the callback has not been invoked.
NothingDeleted ==
    /\ doTasks.running = {}
    /\ \A k \in 1..Len(doTasks.items) :
          /\ doTasks.attempts[k] = 0
          /\ doTasks.calls[k] = <<>>
          /\ doTasks.given[k] = <<>>
          /\ doTasks.called[k] = 0

\* C28: in ForEachDeleteStage the filter of a local primary storage runs first,
\* then the index entry of the digest of every description is purged, one
\* after the other in the order of the descriptions, and no DeleteStage call is
\* made on any storage before all the purges have succeeded; when the filter or
\* a purge fails the operation returns an error with no DeleteStage call made
\* and the callback never invoked.
C28_FilterThenPurgeThenDelete ==
    (doTasks # None /\ doTasks.name = "ForEachDeleteStage") =>
        /\ doTasks.at = "filter" => doTasks.purged = 0 /\ NothingDeleted
        /\ doTasks.at = "purge" => NothingDeleted
        /\ \A k \in 1..doTasks.purged :
              ~index[doTasks.items[k].Digest].found
        /\ ~NothingDeleted
              => /\ doTasks.at \in {"tasks", "returned"}
                 /\ doTasks.purged = Len(doTasks.items)
        /\ (doTasks.at = "returned" /\ doTasks.purged < Len(doTasks.items))
              => doTasks.err = "error" /\ NothingDeleted
        /\ (doTasks.at = "returned" /\ doTasks.err = "")
              => doTasks.purged = Len(doTasks.items)

\* With a local primary storage the filter dropped a description, the entries
\* of both digests of the remaining ones were purged from the index, and a
\* DeleteStage call has been made.
C28_Witness ==
    /\ doTasks # None /\ doTasks.name = "ForEachDeleteStage"
    /\ StagesStorage = LocalStorageAddress
    /\ Len(doTasks.items) = MaxItems - 1
    /\ doTasks.purged = Len(doTasks.items)
    /\ \E j, k \in 1..Len(doTasks.items) :
          doTasks.items[j].Digest # doTasks.items[k].Digest
    /\ \A k \in 1..Len(doTasks.items) : ~index[doTasks.items[k].Digest].found
    /\ ~NothingDeleted

-----------------------------------------------------------------------------
(* SpecDeleteItems: ForEachDeleteStage over two cache storages.             *)

DeleteItemsInit ==
    /\ parallel = FALSE
    /\ parallelTasksLimit = 0
    /\ doTasks = None
    /\ StagesStorage = PrimaryRepo
    /\ CacheStagesStorageList \in {<<>>, CacheRepos}
    /\ storage = [address \in {PrimaryRepo, FinalRepo}
                                   \cup {CacheRepos[n] : n \in DOMAIN CacheRepos} |->
                     [id \in StageIDs |-> "ok"]]
    /\ rejected = {}
    /\ manifestCache = {}
    /\ index = FullIndex
    /\ cacheLock = NoLocks
    /\ lastOk = [digest \in Digests |-> 0]
    /\ storedUnlocked = FALSE
    /\ FeRest

DeleteItemsNext ==
    \/ EnableParallel(2) /\ FeFrame
    \/ \E n \in {0, 1, 2, 3} : ForEachCall("ForEachDeleteStage", n) /\ FeFrame
    \/ FeFilter(FALSE, FALSE) /\ FeFrame
    \/ \E fails \in BOOLEAN : FePurge(fails) /\ FeFrame
    \/ DoTasksDispatch /\ FeFrame
    \/ \E k \in 1..MaxItems, cacheFails \in SUBSET (1..Len(CacheStagesStorageList)),
          deleteFails, callbackErr \in BOOLEAN :
          TaskEnd(k, cacheFails, deleteFails, callbackErr) /\ FeFrame
    \/ DoTasksCancel /\ FeFrame
    \/ DoTasksReturn /\ FeFrame

SpecDeleteItems == DeleteItemsInit /\ [][DeleteItemsNext]_vars

\* The addresses of the storages a sequence of calls was made on.
AddressesOf(calls) == [n \in 1..Len(calls) |-> calls[n].address]

\* C29: in ForEachDeleteStage the task function of every item that was
\* dispatched and has ended called DeleteStage on every cache storage in list
\* order and then on the primary storage, once each, whatever failed at the
\* cache storages; the result of the call on the primary storage, an error or
\* none, was handed to the callback once; and the operation ends with the
\* error of a task only when a callback returned an error.
C29_EveryStorageThenCallbackOnce ==
    (doTasks # None /\ doTasks.name = "ForEachDeleteStage") =>
        /\ \A k \in 1..Len(doTasks.items) :
              /\ k \in doTasks.running
                    => doTasks.calls[k] = <<>> /\ doTasks.given[k] = <<>>
              /\ (doTasks.attempts[k] >= 1 /\ k \notin doTasks.running)
                    => /\ AddressesOf(doTasks.calls[k])
                             = CacheStagesStorageList \o <<StagesStorage>>
                       /\ Len(doTasks.given[k]) = 1
                       /\ doTasks.given[k][1]
                             = doTasks.calls[k][Len(doTasks.calls[k])].failed
                       /\ doTasks.called[k] = 1
              /\ doTasks.attempts[k] = 0
                    => doTasks.calls[k] = <<>> /\ doTasks.given[k] = <<>>
        /\ (doTasks.at = "tasks" /\ doTasks.err # "") => doTasks.failed # {}
        /\ (doTasks.at = "returned" /\ doTasks.purged = Len(doTasks.items)
               /\ doTasks.failed = {})
              => doTasks.err \in {"", "cancelled"}

\* Every item has been done and the operation returned without an error,
\* although for one item DeleteStage failed on the first cache storage and on
\* the primary storage, the second cache storage having been called between.
C29_Witness ==
    /\ doTasks # None /\ doTasks.name = "ForEachDeleteStage"
    /\ doTasks.at = "returned" /\ doTasks.err = ""
    /\ Len(CacheStagesStorageList) = 2
    /\ Len(doTasks.items) >= 2
    /\ \E k \in 1..Len(doTasks.items) :
          /\ Len(doTasks.calls[k]) = 3
          /\ doTasks.calls[k][1].failed
          /\ ~doTasks.calls[k][2].failed
          /\ doTasks.calls[k][3].failed
          /\ doTasks.given[k] = <<TRUE>>

-----------------------------------------------------------------------------
(* SpecResolveOrder: resolutions over two cache storages in either order,   *)
(* against storages that hold the stage, hold it broken or do not hold it.  *)

\* The cache storage lists a resolution is given.
OrderCacheLists ==
    {<<CacheRepos[1]>>, CacheRepos, <<CacheRepos[2], CacheRepos[1]>>}

\* The calls of a resolution that fail: the GetStageDescription of some cache
\* storages and at most one call of the manifest cache.
OrderFaultPlans(cacheList) ==
    {[NoFaults EXCEPT !.cache = failing, !.mget = f = "mget",
                      !.mstore = f = "mstore"] :
        failing \in SUBSET {cacheList[i] : i \in 1..Len(cacheList)},
        f \in {"", "mget", "mstore"}}

ResolveOrderInit ==
    /\ StagesStorage = PrimaryRepo
    /\ CacheStagesStorageList = CacheRepos
    /\ rsTarget = PrimaryRepo
    /\ storage \in [{PrimaryRepo, CacheRepos[1], CacheRepos[2]} ->
                       [ResolveStages -> {"absent", "ok", "broken"}]]
    /\ rejected = {}
    /\ manifestCache = {}
    /\ rsCall = None
    /\ rsResult = None
    /\ mgrRejected = {}
    /\ RsRest

ResolveOrderNext ==
    \E stageID \in ResolveStages, cacheList \in OrderCacheLists,
       opts \in ResolveOptions :
       \E plan \in OrderFaultPlans(cacheList) :
          Resolve(stageID, cacheList, opts, plan)

SpecResolveOrder == ResolveOrderInit /\ [][ResolveOrderNext]_vars

\* The steps of a resolution over the cache storages from the n-th on: for each
\* its manifest cache when enabled, then the storage itself.
RECURSIVE CacheSteps(_, _, _)
CacheSteps(cacheList, opts, n) ==
    IF n > Len(cacheList) THEN <<>>
    ELSE (IF opts.WithLocalManifestCache
          THEN <<[src |-> "cache-manifest", tier |-> cacheList[n]]>>
          ELSE <<>>)
         \o <<[src |-> "cache", tier |-> cacheList[n]]>>
         \o CacheSteps(cacheList, opts, n + 1)

\* The steps of a resolution in the order of the claim: the manifest cache of
\* the target when enabled, the cache storages, the target.
StepOrder(cacheList, opts) ==
    (IF opts.WithLocalManifestCache THEN <<[src |-> "manifest", tier |-> ""]>>
     ELSE <<>>)
    \o CacheSteps(cacheList, opts, 1)
    \o <<[src |-> "target", tier |-> ""]>>

\* Whether a step ends the resolution: a manifest cache that holds the stage's
\* image under the storage's name, or whose lookup fails; a cache storage that
\* returns a description; the target, whatever it returns.
StepAnswers(step, st, mc, rej, stageID, address, plan) ==
    LET asked == IF step.tier = "" THEN address ELSE step.tier
    IN  CASE step.src \in {"manifest", "cache-manifest"} ->
                \/ plan.mget
                \/ ManifestGetImageInfo(mc, asked,
                       ConstructStageImageName(asked, stageID)) # Nil
          [] step.src = "cache" ->
                /\ asked \notin plan.cache
                /\ <<asked, stageID>> \notin rej
                /\ st[asked][stageID] = "ok"
          [] OTHER -> TRUE

\* The step that answered a resolution.
StepOf(result) ==
    [src |-> IF result.src = "manifest" /\ result.tier # "" THEN "cache-manifest"
             ELSE result.src,
     tier |-> result.tier]

\* A step of the model is a call of getStageDescription.
IsResolution == rsCall' # None /\ storage' = storage

\* C30: getStageDescription consults the manifest cache of the target storage
\* when enabled, then each cache storage in list order, its manifest cache
\* first when enabled and then the storage itself, then the target storage,
\* and returns at the first of these that answers; an error of a cache
\* storage's GetStageDescription is never returned: the resolution goes on to
\* the next cache storage and at last to the target.
C30_FirstAnswerInOrderCacheErrorsPassed ==
    [][IsResolution =>
          LET order == StepOrder(rsCall'.cacheList, rsCall'.opts)
              answering == {n \in 1..Len(order) :
                               StepAnswers(order[n], storage, manifestCache,
                                           rejected, rsCall'.stageID, rsTarget,
                                           rsCall'.plan)}
              first == CHOOSE n \in answering : \A i \in answering : n <= i
          IN  /\ StepOf(rsResult') = order[first]
              /\ rsResult'.kind = "error"
                    => \/ rsCall'.plan.mget \/ rsCall'.plan.mstore
                       \/ rsCall'.plan.target \/ rsCall'.plan.reject
              /\ (rsResult'.src = "cache" /\ rsResult'.kind = "desc")
                    => rsResult'.tier \notin rsCall'.plan.cache]_vars

\* Over two cache storages that both hold the stage, the first one's
\* GetStageDescription failed and the second one answered.
C30_Witness ==
    /\ rsCall # None
    /\ Len(rsCall.cacheList) = 2
    /\ rsCall.plan.cache = {rsCall.cacheList[1]}
    /\ storage[rsCall.cacheList[1]][rsCall.stageID] = "ok"
    /\ rsResult.kind = "desc"
    /\ rsResult.src = "cache"
    /\ rsResult.tier = rsCall.cacheList[2]

-----------------------------------------------------------------------------
(* SpecManagerResolve: the resolutions the manager makes, each with the     *)
(* target, the cache storages and the options of its call site, the primary *)
(* storage being a repository or the local storage.                         *)

\* The calls of getStageDescription in the manager.
ManagerResolutions ==
    {[at |-> "GetStageDescriptionList", target |-> StagesStorage,
      cacheList |-> CacheStagesStorageList,
      opts |-> [AllowStagesStorageCacheReset |-> TRUE,
                WithLocalManifestCache |-> getWithLocalManifestCacheOption]],
     [at |-> "GetFinalStageDescriptionList", target |-> FinalStagesStorage,
      cacheList |-> <<>>, opts |-> GetFinalStageDescriptionListOptions],
     [at |-> "CopySuitableByDigestStage", target |-> StagesStorage,
      cacheList |-> CacheStagesStorageList,
      opts |-> [AllowStagesStorageCacheReset |-> TRUE,
                WithLocalManifestCache |-> getWithLocalManifestCacheOption]],
     [at |-> "getStagesByDigestFromCache", target |-> StagesStorage,
      cacheList |-> CacheStagesStorageList,
      opts |-> getStagesByDigestFromCacheOptions],
     [at |-> "getStagesDescriptions", target |-> StagesStorage,
      cacheList |-> CacheStagesStorageList,
      opts |-> getStagesDescriptionsOptions]}

ManagerResolveInit ==
    /\ StagesStorage \in {PrimaryRepo, LocalStorageAddress}
    /\ CacheStagesStorageList = <<CacheRepos[1]>>
    /\ rsTarget \in {StagesStorage, FinalStagesStorage}
    /\ storage = [address \in {rsTarget, CacheRepos[1]} |->
                     [stageID \in ResolveStages |-> "absent"]]
    /\ rejected = {}
    /\ manifestCache = {}
    /\ rsCall = None
    /\ rsResult = None
    /\ mgrRejected = {}
    /\ RsRest

ManagerResolveNext ==
    \/ \E stageID \in ResolveStages, call \in ManagerResolutions :
          \E plan \in ResolveFaultPlans(call.cacheList) :
             /\ call.target = rsTarget
             /\ Resolve(stageID, call.cacheList, call.opts, plan)
    \/ \E address \in DOMAIN storage, stageID \in ResolveStages :
          StageStored(address, stageID)
    \/ \E stageID \in ResolveStages : StageBreaks(rsTarget, stageID)
    \/ \E address \in DOMAIN storage, stageID \in ResolveStages :
          StageDeleted(address, stageID)

SpecManagerResolve == ManagerResolveInit /\ [][ManagerResolveNext]_vars

\* C31: with the local storage as the primary storage every resolution the
\* manager makes has WithLocalManifestCache off, and so none of them reads or
\* writes the manifest cache; with another primary storage the option is on.
C31_ManifestCacheOffWhenPrimaryLocal ==
    rsCall # None =>
        IF StagesStorage = LocalStorageAddress
        THEN ~rsCall.opts.WithLocalManifestCache /\ manifestCache = {}
        ELSE rsCall.opts.WithLocalManifestCache

-----------------------------------------------------------------------------
(* SpecFinalList: InitCache beside the calls on the final storage.          *)

\* InitCache: getOrCreateFinalStagesListCache has returned the list; nil is
\* returned.
IcReturn(p) ==
    /\ pc[p] = "ic_ret"
    /\ CallEnd(p, "", <<>>)
    /\ UNCHANGED <<op, loc, cfgVars, rsVars, envVars, hostVars, finVars>>

\* The stages to replicate are in the primary storage and not yet local.
FinalListInit ==
    /\ FinalInit
    /\ localImages = {}
    /\ \A id \in FetchStages : storage[PrimaryRepo][id] = "ok"

FinalListNext ==
    \/ FinalNext
    \/ \E p \in Fetchers : CallStart(p, [name |-> "InitCache"]) /\ FinFrame
    \/ \E p \in Fetchers : IcReturn(p) /\ FinFrame
    \/ \E p \in Fetchers, failAt \in CopyFailures : CfCopy(p, failAt) /\ FinFrame

SpecFinalList == FinalListInit /\ [][FinalListNext]_vars

\* C32: the list of the final storage is made on the first access and once:
\* however InitCache, GetFinalStageDescriptionList and CopyStageIntoFinalRepo
\* interleave, GetStagesIDs of the final storage succeeds at most once, the
\* list once made is the list every later caller gets, and a listing that
\* fails returns its error, leaves the list unset and frees the mutex, so that
\* the next access lists again.
C32_ListedOnceAndShared ==
    [][/\ finalStats # None => finalStats.listings <= 1
       /\ FinalStagesListCache # Nil
             => /\ FinalStagesListCache' # Nil
                /\ finalStats'.listings = finalStats.listings
       /\ (FinalStagesListCache = Nil /\ FinalStagesListCache' # Nil)
             => finalStats'.listings = finalStats.listings + 1
       /\ \A p \in DOMAIN pc :
             (pc[p] = "gc_body" /\ pc'[p] = "done")
                => /\ ret'[p].err = "error"
                   /\ FinalStagesListCache' = Nil
                   /\ FinalStagesListCacheMux' = 0]_vars

\* The listing of an InitCache failed, and the GetFinalStageDescriptionList of
\* another caller listed with success and returned.
C32_Witness ==
    /\ finalStats # None
    /\ finalStats.listings = 1
    /\ FinalStagesListCache # Nil
    /\ \E p, q \in DOMAIN pc :
          /\ p # q
          /\ pc[p] = "done" /\ ret[p].err = "error" /\ loc[p].calls = <<>>
          /\ op[p].name = "InitCache"
          /\ pc[q] = "done" /\ ret[q].err = ""
          /\ op[q].name = "GetFinalStageDescriptionList"

-----------------------------------------------------------------------------
(* What extends the list of the final storage.                              *)

\* The copy of caller p into the final storage went through to its last call,
\* the LRU access, and that one did not fail.
FinalCopyDone(p) ==
    /\ loc[p].calls # <<>>
    /\ loc[p].calls[Len(loc[p].calls)] = <<"AccessImage", FinalStagesStorage>>
    /\ ~loc[p].lruErr

\* C33: the list of the final storage is extended only by a replication that
\* succeeds. A step that changes the list appends the stage of a
\* CopyStageIntoFinalRepo whose fetch and whose copy (rename, store, manifest
\* cache, LRU access) all succeeded, and that call goes on to return nil; a
\* CopyStageIntoFinalRepo that returns an error never came to AddStageID and
\* its return leaves the list as it is; no other operation changes the list.
C33_ListExtendedOnlyBySuccessfulCopy ==
    [][/\ (FinalStagesListCache # Nil
              /\ FinalStagesListCache' # FinalStagesListCache)
             => \E p \in DOMAIN pc :
                   /\ pc[p] = "cf_add_body" /\ pc'[p] = "cf_ret"
                   /\ op[p].name = "CopyStageIntoFinalRepo"
                   /\ FinalCopyDone(p)
                   /\ FinalStagesListCache'.StageIDs =
                         Append(FinalStagesListCache.StageIDs, op[p].stage)
       /\ \A p \in DOMAIN pc :
             /\ (pc[p] \in {"cf_add", "cf_add_body", "cf_ret"} /\ pc'[p] # pc[p])
                   => /\ pc'[p] \in {"cf_add_body", "cf_ret", "done"}
                      /\ pc'[p] = "done" => ret'[p].err = ""
             /\ (pc[p] # "done" /\ pc'[p] = "done" /\ ret'[p].err # "")
                   => /\ pc[p] \notin {"cf_add", "cf_add_body", "cf_ret"}
                      /\ FinalStagesListCache' = FinalStagesListCache]_vars

\* A replication failed at the LRU access of its copy and returned an error,
\* the stage stored in the final storage and not in the list; another
\* replication has extended the list.
C33_Witness ==
    /\ FinalStagesListCache # Nil
    /\ \E p, q \in DOMAIN pc :
          /\ pc[p] = "done" /\ ret[p].err # ""
          /\ op[p].name = "CopyStageIntoFinalRepo"
          /\ loc[p].lruErr
          /\ storage[FinalStagesStorage][op[p].stage] = "ok"
          /\ ~StageListed(FinalStagesListCache.StageIDs, op[p].stage)
          /\ pc[q] = "done" /\ ret[q].err = ""
          /\ op[q].name = "CopyStageIntoFinalRepo"
          /\ ~loc[q].short
          /\ StageListed(FinalStagesListCache.StageIDs, op[q].stage)

-----------------------------------------------------------------------------
(* The registry of host locks.                                              *)

\* C34: m.SharedHostImagesLocks holds a handle for every host lock the calls of
\* the manager acquired, concurrent calls included: for every shared holder of
\* a lock whose append has been done the registry has the handle.
C34_RegistryHoldsEveryHandle ==
    \A lockName \in HostLockNames :
        \A p \in hostLock[lockName].shared :
            pc[p] # "fs_register"
               => \E n \in 1..Len(SharedHostImagesLocks) :
                     SharedHostImagesLocks[n] = [name |-> lockName, holder |-> p]

-----------------------------------------------------------------------------
(* The list's Mux and the reads of StageIDs.                                *)

\* C35: every read and every write of the StageIDs of the final storage's list
\* is made with the list's Mux held, so that no read of StageIDs is made while
\* another caller is in AddStageID.
C35_StageIDsReadUnderMux ==
    finalStats # None => ~finalStats.unguarded

-----------------------------------------------------------------------------
(* The host lock comes first in FetchStage.                                 *)

\* Caller p holds the shared host lock on the image name of its stage.
HoldsStageImageLock(p) ==
    p \in hostLock[ImageLockName(StageImageName(op[p].stage))].shared

\* C36: FetchStage acquires the shared host lock on the name of the stage's
\* image before any call on a storage or on the container runtime: before the
\* acquisition no call has been made, every call is made with the lock held,
\* and a FetchStage whose acquisition failed returns an error having called
\* ShouldFetchImage, GetStageDescription, FetchImage, RenameImage or StoreImage
\* on no storage.
C36_HostLockBeforeAnyCall ==
    \A p \in PathCallers :
        /\ pc[p] = "fs_start" => loc[p].calls = <<>>
        /\ loc[p].calls # <<>> => HoldsStageImageLock(p)
        /\ (pc[p] # "fs_start" /\ ~HoldsStageImageLock(p))
              => /\ pc[p] \in {"fs_ret", "done"}
                 /\ loc[p].calls = <<>>
                 /\ loc[p].err # ""
                 /\ pc[p] = "done" => ret[p].err # ""
                 /\ storage \in PathStorages
                 /\ lruImages = {}

\* The acquisition failed and FetchStage has returned the error; the image is
\* in the primary storage and not in the local runtime.
C36_Witness ==
    \E p \in PathCallers :
        /\ pc[p] = "done"
        /\ ~HoldsStageImageLock(p)
        /\ ret[p].err # ""
        /\ storage[StagesStorage][op[p].stage] = "ok"
        /\ StageImageName(op[p].stage) \notin localImages

-----------------------------------------------------------------------------
(* SpecFinalDelete: one caller's InitCache, CopyStageIntoFinalRepo and       *)
(* GetFinalStageDescriptionList calls and a ForEachDeleteFinalStage of the   *)
(* manager; nothing else writes to the final storage.                       *)

FinalDeleteNext ==
    \/ \E call \in FinalCalls \cup {[name |-> "InitCache"]} :
          CallStart(FetchCaller, call) /\ FinFrame
    \/ GcLock(FetchCaller) /\ FinFrame
    \/ \E fails \in BOOLEAN : GcBody(FetchCaller, fails) /\ FinFrame
    \/ LogStageIDs(FetchCaller) /\ FinFrame
    \/ CfCheck(FetchCaller) /\ FinFrame
    \/ FsPrimarySteps(FetchCaller, PullAndStoreFailures) /\ FsFrame
    \/ CfFetched(FetchCaller) /\ FinFrame
    \/ \E failAt \in CopyFailures : CfCopy(FetchCaller, failAt) /\ FinFrame
    \/ CfAddLock(FetchCaller) /\ FinFrame
    \/ CfAdd(FetchCaller) /\ FinFrame
    \/ CfReturn(FetchCaller) /\ FinFrame
    \/ GfIDs(FetchCaller) /\ FinFrame
    \/ \E plan \in {NoFaults, [NoFaults EXCEPT !.target = TRUE]} :
          GfResolve(FetchCaller, plan) /\ FinFrame
    \/ GfReturn(FetchCaller) /\ FinFrame
    \/ IcReturn(FetchCaller) /\ FinFrame
    \/ \E n \in {1, 2} : ForEachCall("ForEachDeleteFinalStage", n) /\ FeFrame
    \/ DoTasksDispatch /\ FeFrame
    \/ \E k \in {1, 2}, deleteFails, callbackErr \in BOOLEAN :
          TaskEnd(k, {}, deleteFails, callbackErr) /\ FeFrame
    \/ DoTasksReturn /\ FeFrame

SpecFinalDelete == FinalListInit /\ [][FinalDeleteNext]_vars

\* C37: every stage ID of the list of the final storage is in the final
\* storage, in every state the manager's own InitCache, CopyStageIntoFinalRepo
\* and ForEachDeleteFinalStage lead to; so a stage whose CopyStageIntoFinalRepo
\* has returned nil, by the already-exists check as well, is stored in the
\* final storage when the call returns.
C37_ListedStagesAreStored ==
    /\ FinalStagesListCache # Nil
          => \A n \in 1..Len(FinalStagesListCache.StageIDs) :
                storage[FinalStagesStorage][FinalStagesListCache.StageIDs[n]] = "ok"
    /\ \A p \in DOMAIN pc :
          (pc[p] = "done" /\ ret[p].err = ""
              /\ op[p].name = "CopyStageIntoFinalRepo" /\ loc[p].short)
             => storage[FinalStagesStorage][op[p].stage] = "ok"

-----------------------------------------------------------------------------
(* MaintenanceHelper: the lists of the Helm 2 and Helm 3 releases.          *)

\* The longest release list a storage answers with.
MaxReleases == 3

ReleaseNames == {"r1", "r2"}

ReleaseVersions == {1, 2}

\* A stored revision of a release: rel.Name and rel.Version.
Releases == [Name : ReleaseNames, Version : ReleaseVersions]

\* What ListReleases answers: revisions in the storage's order, each once.
ReleaseLists ==
    UNION {{l \in [1..n -> Releases] :
               \A i, j \in 1..n : l[i] = l[j] => i = j} : n \in 0..MaxReleases}

\* A nil slice of strings, which is also what `var res []string` starts as.
NilSlice == <<>>

\* NewMaintenanceHelper: an empty storage type option means "configmap".
NewMaintenanceHelperStorageType(opt) ==
    IF opt = "" THEN "configmap" ELSE opt

\* initHelm2Storage: "" when the storage is made, the error for a storage
\* type that is neither "configmap" nor "secret".
initHelm2Storage(storageType) ==
    IF storageType \in {"configmap", "secret"} THEN ""
    ELSE "unknown helm 2 release v2Storage type"

\* Every listed release appended, seen before or not.
AppendEveryRelease(res, name) == Append(res, name)

\* One round of the loop labelled AppendUniqReleases: the name is appended
\* unless res has it already.
AppendUniqReleases(res, name) ==
    IF \E i \in 1..Len(res) : res[i] = name THEN res ELSE Append(res, name)

HelmListOperations == {"GetHelm2ReleasesList", "GetHelm3ReleasesList"}

HelmStorageTypeOptions == {"", "secret", "memory"}

HelmListErrors == {"", "list releases failed"}

\* A call of GetHelm2ReleasesList or GetHelm3ReleasesList on a new helper,
\* with what the storage will answer to ListReleases.
HelmListInit ==
    /\ StagesStorage = PrimaryRepo
    /\ CacheStagesStorageList = <<>>
    /\ fnCall \in [name : HelmListOperations,
                   storageType : {NewMaintenanceHelperStorageType(opt) :
                                      opt \in HelmStorageTypeOptions},
                   releases : ReleaseLists,
                   listErr : HelmListErrors]
    /\ fnValue = [pc |-> "called", k |-> 1, res |-> NilSlice, err |-> ""]
    /\ FnRest

\* The error GetHelm2ReleasesList returns before it lists anything.
HelmListInitError ==
    IF fnCall.name = "GetHelm2ReleasesList"
    THEN initHelm2Storage(fnCall.storageType) ELSE ""

\* The storage is initialised (Helm 2 only) and ListReleases is called; an
\* error of either is returned with a nil list.
HlListReleases ==
    /\ fnValue.pc = "called"
    /\ fnValue' =
          IF HelmListInitError # ""
          THEN [fnValue EXCEPT !.pc = "returned", !.err = HelmListInitError]
          ELSE IF fnCall.listErr # ""
          THEN [fnValue EXCEPT !.pc = "returned", !.err = fnCall.listErr]
          ELSE [fnValue EXCEPT !.pc = "loop"]
    /\ UNCHANGED fnCall

\* for _, rel := range releases: one release.
HlAppendUniq ==
    /\ fnValue.pc = "loop"
    /\ fnValue.k <= Len(fnCall.releases)
    /\ fnValue' =
          [fnValue EXCEPT
              !.res = AppendUniqReleases(@, fnCall.releases[fnValue.k].Name),
              !.k = @ + 1]
    /\ UNCHANGED fnCall

\* return res, nil
HlReturn ==
    /\ fnValue.pc = "loop"
    /\ fnValue.k > Len(fnCall.releases)
    /\ fnValue' = [fnValue EXCEPT !.pc = "returned"]
    /\ UNCHANGED fnCall

HelmListNext ==
    \/ HlListReleases /\ FnFrame
    \/ HlAppendUniq /\ FnFrame
    \/ HlReturn /\ FnFrame

SpecHelmList == HelmListInit /\ [][HelmListNext]_vars

\* The place of the first revision of the release in the storage's list.
FirstRevisionAt(releases, name) ==
    CHOOSE i \in 1..Len(releases) :
        /\ releases[i].Name = name
        /\ \A j \in 1..(i - 1) : releases[j].Name # name

\* C38: when ListReleases succeeds, GetHelm2ReleasesList and
\* GetHelm3ReleasesList return nil as the error and a list that has every
\* release name of the storage's list exactly once and nothing else, the
\* names in the order of their first revisions in the storage's list, however
\* many revisions a release has; when ListReleases fails they return its
\* error and a nil list.
C38_EachReleaseOnceInFirstOccurrenceOrder ==
    (fnValue.pc = "returned" /\ HelmListInitError = "") =>
        LET releases == fnCall.releases
            res == fnValue.res
        IN  IF fnCall.listErr # ""
            THEN fnValue.err = fnCall.listErr /\ res = NilSlice
            ELSE /\ fnValue.err = ""
                 /\ \A k \in 1..Len(releases) :
                       Cardinality({i \in 1..Len(res) :
                                       res[i] = releases[k].Name}) = 1
                 /\ \A i \in 1..Len(res) :
                       \E k \in 1..Len(releases) : releases[k].Name = res[i]
                 /\ \A i, j \in 1..Len(res) :
                       i < j => FirstRevisionAt(releases, res[i])
                                   < FirstRevisionAt(releases, res[j])

\* A list is returned for a storage with two releases, the first listed one
\* with a second revision listed after the other release.
C38_Witness ==
    /\ fnValue.pc = "returned"
    /\ fnValue.err = ""
    /\ Len(fnCall.releases) = 3
    /\ fnCall.releases[1].Name = fnCall.releases[3].Name
    /\ fnCall.releases[1].Name # fnCall.releases[2].Name
    /\ Len(fnValue.res) = 2

-----------------------------------------------------------------------------
(* MaintenanceHelper.DeleteHelm2ReleaseMetadata.                            *)

\* Every release passes the filter.
MatchesEveryRelease(rel, releaseName) == TRUE

\* The filter given to ListFilterAll: rel.Name == releaseName.
MatchesReleaseName(rel, releaseName) == rel.Name = releaseName

\* The orders in which a storage can list a set of revisions.
ReleaseOrders(rels) ==
    {l \in [1..Cardinality(rels) -> rels] :
        \A i, j \in 1..Cardinality(rels) : l[i] = l[j] => i = j}

\* fmt.Errorf("error deleting helm 2 release %q version %d: %s", rel.Name,
\* rel.Version): the third verb has no argument.
DeleteReleaseErrorf(rel) ==
    <<"error deleting helm 2 release ", rel.Name, " version ", rel.Version,
      ": ", "%!s(MISSING)">>

\* The error of ListFilterAll.
ListFilterAllError == <<"list releases failed">>

\* The first call of DeleteHelm2ReleaseMetadata on a new helper, with the
\* revisions the Helm 2 storage holds.
HelmDeleteInit ==
    /\ StagesStorage = PrimaryRepo
    /\ CacheStagesStorageList = <<>>
    /\ fnCall \in [releaseName : ReleaseNames,
                   storageType : {NewMaintenanceHelperStorageType(opt) :
                                      opt \in HelmStorageTypeOptions}]
    /\ \E stored \in SUBSET Releases :
          fnValue = [pc |-> "called", stored |-> stored, before |-> stored,
                     releases |-> <<>>, k |-> 1, err |-> NoError,
                     attempts |-> <<>>, listed |-> FALSE, calls |-> 1,
                     last |-> [releaseName |-> "", err |-> NoError]]
    /\ FnRest

\* initHelm2Storage and ListFilterAll; an error of either is returned, and
\* nil is returned when no revision passes the filter.
HdList(order, listFails) ==
    /\ fnValue.pc = "called"
    /\ fnValue' =
          IF initHelm2Storage(fnCall.storageType) # ""
          THEN [fnValue EXCEPT !.pc = "returned",
                               !.err = <<initHelm2Storage(fnCall.storageType)>>]
          ELSE IF listFails
          THEN [fnValue EXCEPT !.pc = "returned", !.err = ListFilterAllError]
          ELSE [fnValue EXCEPT
                   !.pc = IF Len(order) = 0 THEN "returned" ELSE "loop",
                   !.listed = TRUE,
                   !.releases = order]
    /\ UNCHANGED fnCall

\* for _, rel := range releases: storage.Delete(rel.Name, rel.Version); the
\* error of a failed deletion is returned at once.
HdDelete(fails) ==
    LET rel == fnValue.releases[fnValue.k]
    IN  /\ fnValue.pc = "loop"
        /\ fnValue.k <= Len(fnValue.releases)
        /\ fnValue' =
              IF fails
              THEN [fnValue EXCEPT
                       !.pc = "returned",
                       !.err = DeleteReleaseErrorf(rel),
                       !.attempts = Append(@, [rel |-> rel, failed |-> TRUE])]
              ELSE [fnValue EXCEPT
                       !.stored = @ \ {rel},
                       !.k = @ + 1,
                       !.attempts = Append(@, [rel |-> rel, failed |-> FALSE])]
        /\ UNCHANGED fnCall

\* return nil after the loop.
HdReturn ==
    /\ fnValue.pc = "loop"
    /\ fnValue.k > Len(fnValue.releases)
    /\ fnValue' = [fnValue EXCEPT !.pc = "returned"]
    /\ UNCHANGED fnCall

\* The next call on the same helper, for the same or for another release.
HdCallAgain(releaseName) ==
    /\ fnValue.pc = "returned"
    /\ fnValue.calls < MaxCalls
    /\ fnCall' = [fnCall EXCEPT !.releaseName = releaseName]
    /\ fnValue' =
          [pc |-> "called", stored |-> fnValue.stored,
           before |-> fnValue.stored, releases |-> <<>>, k |-> 1,
           err |-> NoError, attempts |-> <<>>, listed |-> FALSE,
           calls |-> fnValue.calls + 1,
           last |-> [releaseName |-> fnCall.releaseName, err |-> fnValue.err]]

HelmDeleteNext ==
    \/ \E listFails \in BOOLEAN :
          \E order \in ReleaseOrders(
                {rel \in fnValue.stored :
                    MatchesReleaseName(rel, fnCall.releaseName)}) :
             HdList(order, listFails) /\ FnFrame
    \/ \E fails \in BOOLEAN : HdDelete(fails) /\ FnFrame
    \/ HdReturn /\ FnFrame
    \/ \E releaseName \in ReleaseNames : HdCallAgain(releaseName) /\ FnFrame

SpecHelmDelete == HelmDeleteInit /\ [][HelmDeleteNext]_vars

\* The revisions of the release among a set of revisions.
RevisionsOf(rels, releaseName) == {rel \in rels : rel.Name = releaseName}

\* After a nil return no revision of the release is stored, and whatever is
\* returned the revisions of the other releases are the ones stored before.
HelmDeleteRemovesTheRelease ==
    /\ fnValue.err = NoError
          => RevisionsOf(fnValue.stored, fnCall.releaseName) = {}
    /\ fnValue.stored \ RevisionsOf(fnValue.stored, fnCall.releaseName)
          = fnValue.before \ RevisionsOf(fnValue.before, fnCall.releaseName)

\* The call returned nil and deleted nothing.
HelmDeleteNoOp ==
    /\ fnValue.err = NoError
    /\ fnValue.attempts = <<>>
    /\ fnValue.stored = fnValue.before

\* The first failed deletion ends the call with an error: no deletion is
\* attempted after it and the revisions listed after it stay stored.
HelmDeleteStopsAtFirstFailure ==
    /\ \A i \in 1..Len(fnValue.attempts) :
          /\ fnValue.attempts[i].rel = fnValue.releases[i]
          /\ fnValue.attempts[i].failed
                => /\ i = Len(fnValue.attempts)
                   /\ fnValue.err # NoError
                   /\ \A j \in i..Len(fnValue.releases) :
                         fnValue.releases[j] \in fnValue.stored
    /\ (fnValue.listed /\ fnValue.err # NoError)
          => /\ fnValue.attempts # <<>>
             /\ fnValue.attempts[Len(fnValue.attempts)].failed

\* C39 as claimed: DeleteHelm2ReleaseMetadata(name) is idempotent: after a
\* nil return no revision of the release is stored and the revisions of other
\* releases are untouched; a call for a release with no stored revision
\* returns nil and deletes nothing; the first failed deletion is returned as
\* an error with no further deletion attempted.
C39_NoRevisionAlwaysSucceeds ==
    fnValue.pc = "returned" =>
        /\ HelmDeleteRemovesTheRelease
        /\ RevisionsOf(fnValue.before, fnCall.releaseName) = {}
              => HelmDeleteNoOp
        /\ HelmDeleteStopsAtFirstFailure

\* C39: DeleteHelm2ReleaseMetadata(name) is idempotent: after a nil return no
\* revision of the release is stored and the revisions of other releases are
\* untouched; a call for a release with no stored revision, a call after a
\* nil return for the same release among them, returns nil and deletes
\* nothing when the storage is initialised and its listing succeeds, and
\* returns the error of the initialisation or of the listing, with nothing
\* deleted, otherwise; the first failed deletion is returned as an error with
\* no further deletion attempted.
C39_IdempotentWhenListingSucceeds ==
    fnValue.pc = "returned" =>
        /\ HelmDeleteRemovesTheRelease
        /\ RevisionsOf(fnValue.before, fnCall.releaseName) = {}
              => IF fnValue.listed THEN HelmDeleteNoOp
                 ELSE /\ fnValue.err # NoError
                      /\ fnValue.attempts = <<>>
                      /\ fnValue.stored = fnValue.before
        /\ (/\ fnValue.last.releaseName = fnCall.releaseName
            /\ fnValue.last.err = NoError
            /\ fnValue.listed)
              => HelmDeleteNoOp
        /\ HelmDeleteStopsAtFirstFailure

\* A second call for a release returns nil with nothing to delete, after a
\* first call that deleted both of its revisions and left the other release
\* alone.
C39_Witness ==
    /\ fnValue.pc = "returned"
    /\ fnValue.calls = 2
    /\ fnValue.last = [releaseName |-> fnCall.releaseName, err |-> NoError]
    /\ fnValue.listed
    /\ fnValue.err = NoError
    /\ fnValue.attempts = <<>>
    /\ \E rel \in fnValue.stored : rel.Name # fnCall.releaseName

=============================================================================
